---- MODULE Spec2Model ----
(***************************************************************************)
(* Verification model of the wayland-calendar-importer scraping and import *)
(* pipeline: MultiSourceScraper (src/lib/scrapers/multiSourceScraper.ts),  *)
(* EventService (src/lib/services/eventService.ts), the database           *)
(* connection (src/lib/db/schema.ts) and the import routes.                *)
(*                                                                         *)
(* Dates are records [y, m, d].  The process time zone is taken to be UTC  *)
(* (the serverless hosts the repository deploys to), so local midnight and *)
(* the UTC midnight `new Date("yyyy-MM-dd")` parses to are the same        *)
(* instant and date comparisons are comparisons of day numbers.            *)
(***************************************************************************)
EXTENDS Integers, Sequences, FiniteSets, TLC

VARIABLES
    today,          \* the calendar day `new Date()` falls on during the run
    entry,          \* the entry point of the request: "POST" (/api/multi-source-import),
                    \* "SSE" (/api/multi-source-import-sse) or "service" (a direct call)
    sources,        \* the requested source list (argument `sources`)
    dateRange,      \* options.dateRange: [given, startDate, endDate]
    site,           \* how each remote site answers in this run, "unasked"
                    \* until its first fetch: [wayland, arts]
    scrapePc,       \* scrapeMultipleSources: "idle" | "awaiting" | "returned"
    tasks,          \* scrapePromises: one record per requested source
    globalErrors,   \* scrapeMultipleSources: const globalErrors
    bulk,           \* the BulkScrapingResult returned (bulk.returned says whether)
    db,             \* the database connection: "up", or "null" (db() gives no
                    \* connection), "unhealthy" (isDatabaseHealthy() is false),
                    \* "failing" (operations on it throw)
    dbChanges,      \* how often the connection has changed state
    events,         \* the events table
    importJobs,     \* the import_jobs table
    calendarSourcesTable, \* the calendar_sources table, by id
    progressCallback, \* the callback passed: "none", "quiet" (the SSE route's,
                    \* which catches its own errors) or "throwing"
    reply,          \* what the last EventService read or write returned
    calls,          \* how many such reads and writes were served
    progressLog,    \* the reports the callback was invoked with
    imp,            \* importFromMultipleSources: position and locals
    other,          \* a second importFromMultipleSources call that overlaps the
                    \* first: position and locals
    stream,         \* the ReadableStream of GET /api/multi-source-import-sse
    given,          \* the argument a pure function of the program is applied to
    computed,       \* what the function returned for it
    connection,     \* module state of lib/db/schema.ts: sqlite, dbInstance,
                    \* isInitialized, and what the last call returned
    seeders,        \* the requests that run initializeCalendarSources and
                    \* seedSampleEvents side by side: position and locals
    scheduler,      \* SchedulerService: the jobs map, the runJobNow call in
                    \* flight and what the last call returned
    run             \* bookkeeping of the current run (not program state)

callVars == <<today, entry, sources, dateRange>>
callerVars == <<progressCallback, reply, calls>>
staticVars == <<connection, seeders, scheduler>>
asideVars == <<other, stream, given, computed, staticVars>>
importVars == <<db, dbChanges, events, importJobs, calendarSourcesTable,
                callerVars, asideVars, progressLog, imp, run>>

-----------------------------------------------------------------------------
(* Bounds of the model *)

\* longest requested source list
MaxSources == 2

\* number of state changes of the database connection in a behaviour
MaxDbChanges == 1

\* number of import runs in a behaviour
MaxRuns == 2
MaxCalls == 2

-----------------------------------------------------------------------------
(* Calendar arithmetic (JavaScript Date, date-fns format) *)

IsLeapYear(y) == (y % 4 = 0 /\ y % 100 # 0) \/ y % 400 = 0

DaysInMonth(y, m) ==
    IF m \in {4, 6, 9, 11} THEN 30
    ELSE IF m = 2 THEN (IF IsLeapYear(y) THEN 29 ELSE 28)
    ELSE 31

DaysInYear(y) == IF IsLeapYear(y) THEN 366 ELSE 365

RECURSIVE DaysBeforeMonth(_, _)
DaysBeforeMonth(y, m) ==
    IF m <= 1 THEN 0 ELSE DaysBeforeMonth(y, m - 1) + DaysInMonth(y, m - 1)

RECURSIVE DaysBeforeYear(_)
DaysBeforeYear(y) ==
    IF y <= 2025 THEN 0 ELSE DaysBeforeYear(y - 1) + DaysInYear(y - 1)

\* Date.getTime() in whole days since 2025-01-01.  A day number beyond the
\* month's length rolls over into the following month, as V8's
\* `new Date("2025-09-31")` does.
getTime(dt) == DaysBeforeYear(dt.y) + DaysBeforeMonth(dt.y, dt.m) + (dt.d - 1)

RECURSIVE DateInYear(_, _, _)
DateInYear(y, m, n) ==
    IF n < DaysInMonth(y, m) THEN [y |-> y, m |-> m, d |-> n + 1]
    ELSE DateInYear(y, m + 1, n - DaysInMonth(y, m))

RECURSIVE DateFromDays(_, _)
DateFromDays(y, n) ==
    IF n < DaysInYear(y) THEN DateInYear(y, 1, n)
    ELSE DateFromDays(y + 1, n - DaysInYear(y))

\* new Date(ms): the calendar date of a day number
newDate(n) == DateFromDays(2025, n)

\* new Date(d.getTime() + k * 24 * 60 * 60 * 1000)
addDays(dt, k) == newDate(getTime(dt) + k)

MkDate(y, m, d) == [y |-> y, m |-> m, d |-> d]


-----------------------------------------------------------------------------
(* Sources, times, messages *)

\* schema.ts: the closed enum of known sources
calendarSources ==
    {"wayland-town", "tcan-events", "patch-community", "wayland-high-school",
     "wayland-wcpa", "town-planner", "arts-wayland", "wayland-high-athletics",
     "wayland-middle-athletics", "wayland-library"}

\* an identifier a caller can send that is outside the enum
UnknownSourceId == "no-such-calendar"

SourceIds == calendarSources \cup {UnknownSourceId}

\* an absent (undefined) clock time, and a present one; `padded` tells
\* whether the hour is written with two digits
undefinedTime == [defined |-> FALSE, hh |-> 0, mm |-> 0, padded |-> TRUE]
ClockTime(h, m) == [defined |-> TRUE, hh |-> h, mm |-> m, padded |-> TRUE]

\* A time token found in markup: hour, minutes (when written), meridiem
\* ("am", "pm" or "none") and whether a space precedes the meridiem.
noTimeText == [present |-> FALSE, h |-> 0, m |-> 0, hasMinutes |-> FALSE,
               meridiem |-> "none", space |-> FALSE]
TimeText(h, m, hasMinutes, meridiem, space) ==
    [present |-> TRUE, h |-> h, m |-> m, hasMinutes |-> hasMinutes,
     meridiem |-> meridiem, space |-> space]

\* MultiSourceScraper.parseTime.  date-fns parse(cleaned, 'h:mm a') accepts
\* only "h:mm a" with the space; anything else is an Invalid Date, format()
\* throws on it and the catch returns undefined.
parseTime(t) ==
    IF t.meridiem # "none"
    THEN IF t.hasMinutes /\ t.space /\ t.h \in 1..12 /\ t.m \in 0..59
         THEN ClockTime((t.h % 12) + (IF t.meridiem = "pm" THEN 12 ELSE 0), t.m)
         ELSE undefinedTime
    ELSE IF t.hasMinutes
    THEN [defined |-> TRUE, hh |-> t.h, mm |-> t.m, padded |-> t.h >= 10]
    ELSE IF t.h \in 0..23 THEN ClockTime(t.h, 0)
    ELSE undefinedTime

\* every message of the model: its text, the source it is about, the month
\* and year it is about (0 when none) and the cause it quotes
Msg(text, source, month, year, cause) ==
    [text |-> text, source |-> source, month |-> month, year |-> year,
     cause |-> cause]

\* the `${error}` of a failed page fetch
FetchErrorText(kind) ==
    IF kind = "http403" THEN "Error: HTTP 403: Forbidden"
    ELSE IF kind = "http500" THEN "Error: HTTP 500: Internal Server Error"
    ELSE "TypeError: fetch failed"

\* MultiSourceScrapingResult
emptyResult(source) ==
    [source |-> source, events |-> <<>>, errors |-> <<>>, warnings |-> <<>>]

-----------------------------------------------------------------------------
(* scrapeWaylandTown *)

\* 90 * 24 * 60 * 60 * 1000 ms, in days
WindowDays == 90

\* options?.dateRange?.startDate || today
startDate == IF dateRange.given THEN dateRange.startDate ELSE today

\* options?.dateRange?.endDate || new Date(today.getTime() + 90 days)
endDate == IF dateRange.given THEN dateRange.endDate ELSE addDays(today, WindowDays)

\* currentScrapeDate.setMonth(getMonth() + 1); currentScrapeDate.setDate(1).
\* setMonth keeps the day of the month, so a day the next month does not
\* have overflows into the month after it.
nextScrapeDate(cur) ==
    LET ny == IF cur.m = 12 THEN cur.y + 1 ELSE cur.y
        nm == IF cur.m = 12 THEN 1 ELSE cur.m + 1
        oy == IF nm = 12 THEN ny + 1 ELSE ny
        om == IF nm = 12 THEN 1 ELSE nm + 1
    IN  IF cur.d > DaysInMonth(ny, nm)
        THEN MkDate(oy, om, 1)
        ELSE MkDate(ny, nm, 1)

RECURSIVE monthsLoop(_, _, _)
monthsLoop(cur, last, acc) ==
    IF getTime(cur) > getTime(last) THEN acc
    ELSE LET monthYear == [month |-> cur.m, year |-> cur.y]
             seen == \E k \in 1..Len(acc) : acc[k] = monthYear
         IN  monthsLoop(nextScrapeDate(cur), last,
                        IF seen THEN acc ELSE Append(acc, monthYear))

monthsToScrape == monthsLoop(startDate, endDate, <<>>)

\* titles the link loop skips: empty, shorter than 3, or parsing as a number
TitleSkipped(title) == title \in {"", "TB", "15"}

\* One link of a day cell: the cell's day number text (0 when none parses),
\* the link text and the time token in the text that follows the link.
Link(day, title, timeText) == [day |-> day, title |-> title, timeText |-> timeText]

\* the event the link loop builds
WaylandTownEvent(l, my) ==
    [title |-> l.title,
     startDate |-> MkDate(my.year, my.month, l.day),
     isAllDay |-> ~l.timeText.present,
     startTime |-> IF l.timeText.present THEN parseTime(l.timeText) ELSE undefinedTime,
     calendarSource |-> "wayland-town"]

\* eventDate >= todayStart && eventDate <= windowEnd
InNinetyDayWindow(dt) ==
    /\ getTime(dt) >= getTime(today)
    /\ getTime(dt) <= getTime(today) + WindowDays

RECURSIVE parseDayCells(_, _, _)
parseDayCells(page, my, acc) ==
    IF page = <<>> THEN acc
    ELSE LET l == Head(page)
             keep == /\ l.day >= 1 /\ l.day <= 31
                     /\ ~TitleSkipped(l.title)
                     /\ InNinetyDayWindow(MkDate(my.year, my.month, l.day))
         IN  parseDayCells(Tail(page), my,
                           IF keep THEN Append(acc, WaylandTownEvent(l, my)) ELSE acc)

\* body of the month loop for one month, given the response to its fetch
scrapeMonth(result, my, response) ==
    IF response.kind = "ok"
    THEN LET evs == parseDayCells(response.page, my, result.events)
         IN  [result EXCEPT
                !.events = evs,
                !.warnings = IF Len(evs) = 0
                             THEN Append(@, Msg("No events found with current selectors - calendar structure may have changed",
                                                "wayland-town", 0, 0, ""))
                             ELSE @]
    ELSE [result EXCEPT
            !.warnings = Append(@, Msg("Failed to scrape", "wayland-town",
                                       my.month, my.year, FetchErrorText(response.kind)))]

SampleEvent(title, dt, time, source) ==
    [title |-> title, startDate |-> dt, isAllDay |-> ~time.defined,
     startTime |-> time, calendarSource |-> source]

\* the three sample municipal events
sampleEvents ==
    << SampleEvent("Board of Selectmen Meeting", addDays(today, 5), ClockTime(19, 0), "wayland-town"),
       SampleEvent("Planning Board Public Hearing", addDays(today, 12), ClockTime(19, 30), "wayland-town"),
       SampleEvent("Town Finance Committee Meeting", addDays(today, 19), ClockTime(19, 0), "wayland-town") >>

\* an extractor that returns what it found, without falling back
waylandTownNoFallback(result) == result

\* after the month loop: fall back to the sample events when none was found
waylandTownFallback(result) ==
    IF Len(result.events) = 0
    THEN [result EXCEPT
            !.warnings = Append(@, Msg("No live events found, using sample municipal events",
                                       "wayland-town", 0, 0, "")),
            !.events = @ \o sampleEvents]
    ELSE result

-----------------------------------------------------------------------------
(* The remote sites *)

\* the month page of www.wayland.ma.us when it serves its calendar: a link
\* that is only the day number, a meeting followed by a time, a link in the
\* cell of day 31, a link in a cell without a day number, and the meeting
\* of day 15 once more (its cell is matched by 'td' and, nested in it, by
\* '.calendar-day': the selector visits both and each finds the link)
calendarPage ==
    << Link(15, "15", noTimeText),
       Link(15, "Select Board Meeting", TimeText(7, 30, TRUE, "pm", FALSE)),
       Link(31, "Planning Board", noTimeText),
       Link(0, "Finance Committee", noTimeText),
       Link(15, "Select Board Meeting", TimeText(7, 30, TRUE, "pm", FALSE)) >>

\* the page of July 2025, which also lists the selectmen's meeting of the 25th
julyPage == Append(calendarPage, Link(25, "Board of Selectmen Meeting", noTimeText))

\* the page served for a month
monthPage(my) == IF my.month = 7 /\ my.year = 2025 THEN julyPage ELSE calendarPage

WaylandSites == {"blocked", "down", "nomatch", "live", "flaky"}

\* "flaky" serves the even months and fails the odd ones with HTTP 500
\* fetch(url) for the month page of `my`: [kind, page]
waylandResponse(mode, my) ==
    IF mode = "blocked" THEN [kind |-> "http403", page |-> <<>>]
    ELSE IF mode = "down" THEN [kind |-> "network", page |-> <<>>]
    ELSE IF mode = "nomatch" THEN [kind |-> "ok", page |-> <<>>]
    ELSE IF mode = "live" THEN [kind |-> "ok", page |-> monthPage(my)]
    ELSE IF my.month % 2 = 0 THEN [kind |-> "ok", page |-> monthPage(my)]
    ELSE [kind |-> "http500", page |-> <<>>]

\* An element of artswayland.com matching the event selectors: its title and
\* the date its text holds, if any (month and day, no year).
artsPage ==
    << [title |-> "Summer Art Show", hasDate |-> TRUE, month |-> 8, day |-> 15],
       [title |-> "Open Studio", hasDate |-> FALSE, month |-> 0, day |-> 0],
       [title |-> "", hasDate |-> FALSE, month |-> 0, day |-> 0] >>

ArtsSites == {"blocked", "down", "nomatch", "live"}

artsResponse(mode) ==
    IF mode = "blocked" THEN [kind |-> "http403", page |-> <<>>]
    ELSE IF mode = "down" THEN [kind |-> "network", page |-> <<>>]
    ELSE IF mode = "nomatch" THEN [kind |-> "ok", page |-> <<>>]
    ELSE [kind |-> "ok", page |-> artsPage]

\* day offsets Math.random() * 60 days can give an undated element
RandomDays == {0, 59}

-----------------------------------------------------------------------------
(* scrapeArtsWayland and the extractors that are not implemented *)

RECURSIVE parseArtsElements(_, _, _)
parseArtsElements(page, random, acc) ==
    IF page = <<>> THEN acc
    ELSE LET el == Head(page)
             eventDate == IF el.hasDate THEN MkDate(today.y, el.month, el.day)
                          ELSE addDays(today, random)
             keep == el.title # "" /\ InNinetyDayWindow(eventDate)
             event == [title |-> el.title, startDate |-> newDate(getTime(eventDate)),
                       isAllDay |-> TRUE, startTime |-> undefinedTime,
                       calendarSource |-> "arts-wayland"]
         IN  parseArtsElements(Tail(page), random,
                               IF keep THEN Append(acc, event) ELSE acc)

sampleArtsEvents ==
    << SampleEvent("GALLERY SCHEDULE", addDays(today, 7), undefinedTime, "arts-wayland"),
       SampleEvent("Members Art Exhibit", addDays(today, 14), undefinedTime, "arts-wayland") >>

\* scrapeArtsWayland from the response to its one fetch
scrapeArtsWayland(response, random) ==
    LET result == emptyResult("arts-wayland")
    IN  IF response.kind = "ok"
        THEN LET evs == parseArtsElements(response.page, random, <<>>)
             IN  [result EXCEPT !.events = IF Len(evs) = 0 THEN sampleArtsEvents ELSE evs]
        ELSE [result EXCEPT
                !.errors = Append(@, Msg("Error scraping Arts Wayland", "arts-wayland",
                                         0, 0, FetchErrorText(response.kind)))]

\* scrapeTcanEvents, scrapePatchCommunity, scrapeWaylandHighSchool,
\* scrapeWaylandWcpa, scrapeTownPlanner, scrapeWaylandHighAthletics,
\* scrapeWaylandMiddleAthletics, scrapeWaylandLibrary
scrapeStub(source) ==
    [emptyResult(source) EXCEPT
        !.warnings = <<Msg("scraper not fully implemented yet", source, 0, 0, "")>>]

-----------------------------------------------------------------------------
(* scrapeSingleSource and scrapeMultipleSources *)

\* The promise of one scrapeSingleSource call right after the call returns:
\* "fetching" (suspended at a fetch), "resolved", or "rejected".
scrapeSingleSource(source) ==
    IF source = "wayland-town"
    THEN IF monthsToScrape = <<>>
         THEN [st |-> "resolved", mi |-> 1,
               result |-> waylandTownFallback(emptyResult(source))]
         ELSE [st |-> "fetching", mi |-> 1, result |-> emptyResult(source)]
    ELSE IF source = "arts-wayland"
    THEN [st |-> "fetching", mi |-> 1, result |-> emptyResult(source)]
    ELSE IF source \in calendarSources
    THEN [st |-> "resolved", mi |-> 1, result |-> scrapeStub(source)]
    ELSE [st |-> "rejected", mi |-> 1, result |-> emptyResult(source)]

\* a catch handler that swallows the rejection without recording it
catchHandlerSilent(errs, source) == errs

\* .catch(error => { globalErrors.push(`Failed to scrape ${source}: ...`) })
catchHandler(errs, source) ==
    Append(errs, Msg("Failed to scrape", source, 0, 0, "Unknown calendar source"))

\* the results that are not null, the last requested source first
RECURSIVE validResultsReversed(_, _)
validResultsReversed(ts, i) ==
    IF i > Len(ts) THEN <<>>
    ELSE validResultsReversed(ts, i + 1)
         \o (IF ts[i].st = "resolved" THEN <<ts[i].result>> ELSE <<>>)

\* rawResults.filter(result => result !== null), in the order of the request
RECURSIVE validResults(_, _)
validResults(ts, i) ==
    IF i > Len(ts) THEN <<>>
    ELSE (IF ts[i].st = "resolved" THEN <<ts[i].result>> ELSE <<>>)
         \o validResults(ts, i + 1)

\* results.reduce((sum, result) => sum + result.events.length, 0)
RECURSIVE sumEvents(_)
sumEvents(rs) == IF rs = <<>> THEN 0 ELSE Len(Head(rs).events) + sumEvents(Tail(rs))

\* a count of every result, with or without events
countResults(rs) == Len(rs)

\* results.filter(result => result.events.length > 0).length
RECURSIVE countSuccessful(_)
countSuccessful(rs) ==
    IF rs = <<>> THEN 0
    ELSE (IF Len(Head(rs).events) > 0 THEN 1 ELSE 0) + countSuccessful(Tail(rs))

noBulk ==
    [returned |-> FALSE, results |-> <<>>, totalEvents |-> 0, totalSources |-> 0,
     successfulSources |-> 0, globalErrors |-> <<>>]

\* the BulkScrapingResult built once Promise.all has settled
bulkScrapingResult(ts, errs) ==
    LET results == validResults(ts, 1)
    IN  [returned |-> TRUE,
         results |-> results,
         totalEvents |-> sumEvents(results),
         totalSources |-> Len(sources),
         successfulSources |-> countSuccessful(results),
         globalErrors |-> errs]

\* scrapeMultipleSources up to `await Promise.all`: every extraction is started
StartScrape ==
    /\ scrapePc = "idle"
    /\ tasks' = [i \in 1..Len(sources) |-> scrapeSingleSource(sources[i])]
    /\ globalErrors' = <<>>
    /\ scrapePc' = "awaiting"
    /\ UNCHANGED <<callVars, site, bulk, importVars>>

\* scrapeWaylandTown resumes from the fetch of its next month
FetchWaylandMonth(i) ==
    /\ scrapePc = "awaiting"
    /\ tasks[i].st = "fetching"
    /\ sources[i] = "wayland-town"
    /\ \E mode \in (IF site.wayland = "unasked" THEN WaylandSites ELSE {site.wayland}) :
         LET t == tasks[i]
             my == monthsToScrape[t.mi]
             r == scrapeMonth(t.result, my, waylandResponse(mode, my))
         IN  /\ site' = [site EXCEPT !.wayland = mode]
             /\ tasks' = [tasks EXCEPT ![i] =
                    IF t.mi = Len(monthsToScrape)
                    THEN [st |-> "resolved", mi |-> t.mi, result |-> waylandTownFallback(r)]
                    ELSE [st |-> "fetching", mi |-> t.mi + 1, result |-> r]]
    /\ UNCHANGED <<callVars, scrapePc, globalErrors, bulk, importVars>>

\* scrapeArtsWayland resumes from its fetch
FetchArtsWayland(i) ==
    /\ scrapePc = "awaiting"
    /\ tasks[i].st = "fetching"
    /\ sources[i] = "arts-wayland"
    /\ \E mode \in (IF site.arts = "unasked" THEN ArtsSites ELSE {site.arts}) :
       \E random \in (IF mode = "live" THEN RandomDays ELSE {0}) :
         /\ site' = [site EXCEPT !.arts = mode]
         /\ tasks' = [tasks EXCEPT ![i] =
               [st |-> "resolved", mi |-> 1,
                result |-> scrapeArtsWayland(artsResponse(mode), random)]]
    /\ UNCHANGED <<callVars, scrapePc, globalErrors, bulk, importVars>>

\* the .catch handler of a rejected extraction runs
CatchRejected(i) ==
    /\ scrapePc = "awaiting"
    /\ tasks[i].st = "rejected"
    /\ globalErrors' = catchHandler(globalErrors, sources[i])
    /\ tasks' = [tasks EXCEPT ![i].st = "null"]
    /\ UNCHANGED <<callVars, site, scrapePc, bulk, importVars>>

\* Promise.all settles and scrapeMultipleSources returns
PromiseAll ==
    /\ scrapePc = "awaiting"
    /\ \A i \in 1..Len(tasks) : tasks[i].st \in {"resolved", "null"}
    /\ bulk' = bulkScrapingResult(tasks, globalErrors)
    /\ scrapePc' = "returned"
    /\ UNCHANGED <<callVars, site, tasks, globalErrors, importVars>>

-----------------------------------------------------------------------------
(* The database and EventService.withDatabaseFallback *)

DbStates == {"up", "null", "unhealthy", "failing"}

\* db() gives a connection, isDatabaseHealthy() holds and operations succeed
databaseAvailable == db = "up"

\* a wrapper that runs the operation whatever the state of the connection
withoutDatabaseFallback(operation, fallback) == operation

\* withDatabaseFallback(operation, fallback): the operation's result, or the
\* fallback when there is no connection, it is unhealthy, or the operation
\* throws
withDatabaseFallback(operation, fallback) ==
    IF databaseAvailable THEN operation ELSE fallback

\* no EventService read or write has been served yet
noReply == [op |-> "none", arg |-> 0, dbWas |-> "up", outcome |-> "none", value |-> <<>>]

\* Math.floor(Math.random() * 1000000): the job id made up in fallback mode
RandomJobIds == {1, 424242}

\* The connection changes state (file system lost, host recycled, ...).
\* Only database operations observe the connection, so a change is taken
\* at the moment before one; a lost connection can only come back up.
DbChange ==
    /\ dbChanges < MaxDbChanges
    /\ \/ imp.pc \in {"idle", "select", "write", "catch", "done"}
       \/ imp.pc = "source" /\ imp.i > Len(bulk.results)
    /\ \E s \in (IF db = "up" THEN DbStates \ {"up"} ELSE {"up"}) : db' = s
    /\ dbChanges' = dbChanges + 1
    /\ UNCHANGED <<callVars, site, scrapePc, tasks, globalErrors, bulk, events,
                   importJobs, calendarSourcesTable, callerVars, asideVars,
                   progressLog, imp, run>>

-----------------------------------------------------------------------------
(* EventService.importFromMultipleSources *)

idleImport ==
    [pc |-> "idle", jobId |-> 0, i |-> 1, j |-> 1, totalImported |-> 0,
     totalErrors |-> <<>>, totalWarnings |-> <<>>, existing |-> 0,
     outcome |-> "none"]

newRun(n) ==
    [n |-> n, inserted |-> 0, updated |-> 0, failed |-> 0, countAtStart |-> 0,
     held |-> FALSE, insertedKeys |-> {}]

\* no connection was asked for, no request seeds, no scheduler call was made
MaxRequests == 3
noConnection ==
    [sqlite |-> "null", dbInstance |-> "null", isInitialized |-> FALSE,
     production |-> FALSE, n |-> 0, returned |-> [op |-> "none", value |-> "none"]]
noSeeders == [r \in 1..MaxRequests |-> [pc |-> "idle", existingEvents |-> 0]]
noScheduler ==
    [jobs |-> [j \in {} |-> 0], created |-> 0, running |-> {}, n |-> 0,
     last |-> [j \in {} |-> 0],
     returned |-> [op |-> "none", jobId |-> "", value |-> FALSE, threw |-> FALSE]]
staticIdle ==
    /\ connection = noConnection
    /\ seeders = noSeeders
    /\ scheduler = noScheduler

\* the overlapping call, the stream and the normalizers when they play no part
idleOther ==
    [pc |-> "none", jobId |-> 0, results |-> <<>>, i |-> 1, j |-> 1, existing |-> 0,
     totalImported |-> 0, insertedKeys |-> {}]
noStream == [state |-> "none", started |-> FALSE, pulling |-> FALSE, pulls |-> 0,
             closeRequested |-> FALSE, json |-> "array", queued |-> 0, sent |-> <<>>]
asideIdle ==
    /\ other = idleOther
    /\ stream = noStream
    /\ given = <<>>
    /\ computed = <<>>
    /\ staticIdle

\* the row inserted for a new job
NewImportJob(id) ==
    [id |-> id, status |-> "running", totalEvents |-> 0, successfulImports |-> 0,
     written |-> <<"running">>]

\* update(importJobs).set({status, ...}).where(eq(importJobs.id, id));
\* `written` records every status the row was given
updateImportJob(jobs, id, status, totalEvents, successfulImports) ==
    [k \in 1..Len(jobs) |->
        IF jobs[k].id = id
        THEN [jobs[k] EXCEPT !.status = status,
                             !.totalEvents = totalEvents,
                             !.successfulImports = successfulImports,
                             !.written = Append(@, status)]
        ELSE jobs[k]]

\* `${scraped.startDate}T${scraped.startTime || "00:00"}:00.000Z`
storedStartDate(scraped) ==
    IF scraped.startTime.defined
    THEN [date |-> scraped.startDate, hh |-> scraped.startTime.hh,
          mm |-> scraped.startTime.mm, padded |-> scraped.startTime.padded]
    ELSE [date |-> scraped.startDate, hh |-> 0, mm |-> 0, padded |-> TRUE]

convertEnhancedScrapedEventToNewEvent(scraped) ==
    [title |-> scraped.title,
     startDate |-> storedStartDate(scraped),
     startTime |-> scraped.startTime,
     isAllDay |-> scraped.isAllDay,
     calendarSource |-> scraped.calendarSource,
     verificationStatus |-> "pending"]

\* the rows the lookup of createOrUpdateEvent matches
matching(table, eventData) ==
    {k \in 1..Len(table) :
        /\ table[k].title = eventData.title
        /\ table[k].startDate = eventData.startDate
        /\ table[k].calendarSource = eventData.calendarSource}

\* a lookup that never finds a row
selectNothing(table, eventData) == 0

\* select().from(events).where(and(title, startDate, calendarSource)).limit(1):
\* the id of the first matching row, 0 when there is none
selectExisting(table, eventData) ==
    IF matching(table, eventData) = {} THEN 0
    ELSE table[CHOOSE k \in matching(table, eventData) :
                   \A k2 \in matching(table, eventData) : k <= k2].id

\* update(events).set({...eventData}).where(eq(events.id, id))
updateEventRow(table, id, eventData) ==
    [k \in 1..Len(table) |->
        IF table[k].id = id
        THEN [id |-> id, title |-> eventData.title, startDate |-> eventData.startDate,
              startTime |-> eventData.startTime, isAllDay |-> eventData.isAllDay,
              calendarSource |-> eventData.calendarSource,
              verificationStatus |-> eventData.verificationStatus]
        ELSE table[k]]

\* the rowid SQLite gives a row inserted without one: the largest plus one
nextRowId(table) ==
    IF table = <<>> THEN 1
    ELSE 1 + (CHOOSE n \in {table[k].id : k \in 1..Len(table)} :
                  \A k \in 1..Len(table) : table[k].id <= n)

\* an insert into a table that keeps one row per (title, startDate,
\* calendarSource): a row with the key of eventData is left as it is
insertEventRowUnique(table, eventData) ==
    IF \E k \in 1..Len(table) :
          /\ table[k].title = eventData.title
          /\ table[k].startDate = eventData.startDate
          /\ table[k].calendarSource = eventData.calendarSource
    THEN table
    ELSE Append(table,
           [id |-> Len(table) + 1, title |-> eventData.title,
            startDate |-> eventData.startDate, startTime |-> eventData.startTime,
            isAllDay |-> eventData.isAllDay,
            calendarSource |-> eventData.calendarSource,
            verificationStatus |-> eventData.verificationStatus])

\* insert(events).values(eventData)
insertEventRow(table, eventData) ==
    Append(table,
           [id |-> nextRowId(table), title |-> eventData.title,
            startDate |-> eventData.startDate, startTime |-> eventData.startTime,
            isAllDay |-> eventData.isAllDay,
            calendarSource |-> eventData.calendarSource,
            verificationStatus |-> eventData.verificationStatus])

\* the outcomes of one invocation of the progress callback
\* ("throwing": a callback that may throw at any invocation, or never)
callbackOutcomes == IF progressCallback = "throwing" THEN {"ok", "throw"} ELSE {"ok"}

\* progressCallback?.({processed, total, ...})
report(log, kind, processed, total) ==
    IF progressCallback = "none" THEN log
    ELSE Append(log, [kind |-> kind, processed |-> processed, total |-> total])

\* controller.enqueue(chunk) is allowed on a readable stream that was not
\* asked to close; on any other stream it throws
canEnqueue(st) == st.state = "readable" /\ ~st.closeRequested

\* controller.enqueue of an event of the given type
enqueue(st, type) ==
    IF canEnqueue(st)
    THEN [st EXCEPT !.sent = Append(@, type), !.queued = @ + 1]
    ELSE st

\* the callback of the SSE route (lines 50-66): it enqueues a progress event
\* and catches what enqueue throws
sendProgress(st) == IF progressCallback = "quiet" THEN enqueue(st, "progress") ELSE st

\* the source result and the candidate event the loops are at
sourceResult == bulk.results[imp.i]
scrapedEvent == sourceResult.events[imp.j]

\* every candidate of the bulk result, converted
candidates ==
    UNION {{convertEnhancedScrapedEventToNewEvent(bulk.results[k].events[e]) :
                e \in 1..Len(bulk.results[k].events)} : k \in 1..Len(bulk.results)}

\* POST /api/multi-source-import, lines 22-42: the identifiers outside the
\* list of valid sources
invalidSources == {i \in 1..Len(sources) : sources[i] \notin calendarSources}

\* the POST route answers 400 to a list with invalid sources
PostReject ==
    /\ imp.pc = "idle"
    /\ entry = "POST"
    /\ invalidSources # {}
    /\ imp' = [imp EXCEPT !.pc = "done", !.outcome = "badRequest"]
    /\ UNCHANGED <<callVars, site, scrapePc, tasks, globalErrors, bulk, db,
                   dbChanges, events, importJobs, calendarSourcesTable,
                   callerVars, asideVars, progressLog, run>>

\* lines 385-402: the job row is created with status running, or an id is
\* made up when the database is unavailable.  (The POST route calls only
\* with a validated list; the SSE route and direct callers pass any list.)
ImportCall ==
    /\ imp.pc = "idle"
    /\ entry = "POST" => invalidSources = {}
    /\ \E made \in (IF databaseAvailable THEN {0} ELSE RandomJobIds) :
         /\ importJobs' = withDatabaseFallback(
                Append(importJobs, NewImportJob(Len(importJobs) + 1)), importJobs)
         /\ imp' = [idleImport EXCEPT
                !.pc = "start",
                !.jobId = withDatabaseFallback(Len(importJobs) + 1, made)]
    /\ run' = newRun(run.n + 1)
    /\ progressLog' = <<>>
    /\ UNCHANGED <<callVars, site, scrapePc, tasks, globalErrors, bulk, db,
                   dbChanges, events, calendarSourcesTable, callerVars, asideVars>>

\* lines 405-414: the first report, then scrapeMultipleSources is called
ProgressStart ==
    /\ imp.pc = "start"
    /\ progressLog' = report(progressLog, "start", 0, Len(sources))
    /\ stream' = sendProgress(stream)
    /\ \E o \in callbackOutcomes :
         IF o = "throw"
         THEN /\ imp' = [imp EXCEPT !.pc = "catch"]
              /\ UNCHANGED scrapePc
         ELSE /\ imp' = [imp EXCEPT !.pc = "scrape"]
              /\ scrapePc' = "idle"
    /\ UNCHANGED <<callVars, site, tasks, globalErrors, bulk, db, dbChanges,
                   events, importJobs, calendarSourcesTable, callerVars, other, given, staticVars, computed, run>>

\* lines 414-418: the bulk result is back
BeginReconcile ==
    /\ imp.pc = "scrape"
    /\ scrapePc = "returned"
    /\ imp' = [imp EXCEPT !.pc = "source", !.i = 1, !.totalImported = 0,
                          !.totalErrors = bulk.globalErrors, !.totalWarnings = <<>>]
    /\ run' = [run EXCEPT
            !.countAtStart = Len(events),
            !.held = \A c \in candidates : matching(events, c) # {}]
    /\ UNCHANGED <<callVars, site, scrapePc, tasks, globalErrors, bulk, db,
                   dbChanges, events, importJobs, calendarSourcesTable,
                   callerVars, asideVars, progressLog>>

\* lines 421-431: the report for the next source result
ProgressSource ==
    /\ imp.pc = "source"
    /\ imp.i <= Len(bulk.results)
    /\ progressLog' = report(progressLog, "source", imp.i, Len(bulk.results))
    /\ stream' = sendProgress(stream)
    /\ \E o \in callbackOutcomes :
         imp' = [imp EXCEPT !.pc = IF o = "throw" THEN "catch" ELSE "select", !.j = 1]
    /\ UNCHANGED <<callVars, site, scrapePc, tasks, globalErrors, bulk, db,
                   dbChanges, events, importJobs, calendarSourcesTable,
                   callerVars, other, given, staticVars, computed, run>>

\* lines 436-438, createOrUpdateEvent lines 544-559: convert the candidate
\* and look it up; without a database the placeholder is returned at once and
\* the candidate counts as imported
SelectExisting ==
    /\ imp.pc = "select"
    /\ imp.j <= Len(sourceResult.events)
    /\ LET newEvent == convertEnhancedScrapedEventToNewEvent(scrapedEvent)
       IN  imp' = withDatabaseFallback(
                [imp EXCEPT !.pc = "write", !.existing = selectExisting(events, newEvent)],
                [imp EXCEPT !.j = @ + 1, !.totalImported = @ + 1])
    /\ run' = withDatabaseFallback(run, [run EXCEPT !.failed = @ + 1])
    /\ UNCHANGED <<callVars, site, scrapePc, tasks, globalErrors, bulk, db,
                   dbChanges, events, importJobs, calendarSourcesTable,
                   callerVars, asideVars, progressLog>>

\* createOrUpdateEvent lines 561-576: update the row found or insert a new
\* one; a failing write yields the placeholder
WriteEvent ==
    /\ imp.pc = "write"
    /\ LET newEvent == convertEnhancedScrapedEventToNewEvent(scrapedEvent)
       IN  /\ events' = withDatabaseFallback(
                  IF imp.existing # 0 THEN updateEventRow(events, imp.existing, newEvent)
                  ELSE insertEventRow(events, newEvent),
                  events)
           /\ run' = withDatabaseFallback(
                  IF imp.existing # 0 THEN [run EXCEPT !.updated = @ + 1]
                  ELSE [run EXCEPT !.inserted = @ + 1,
                                   !.insertedKeys = @ \cup {newEvent}],
                  [run EXCEPT !.failed = @ + 1])
    /\ imp' = [imp EXCEPT !.pc = "select", !.j = @ + 1, !.existing = 0,
                          !.totalImported = @ + 1]
    /\ UNCHANGED <<callVars, site, scrapePc, tasks, globalErrors, bulk, db,
                   dbChanges, importJobs, calendarSourcesTable, callerVars, asideVars,
                   progressLog>>

\* updateCalendarSource: update(calendarSourcesTable).set(updates).where(id)
updateCalendarSource(table, id, n) ==
    [s \in DOMAIN table |->
        IF s = id
        THEN [table[s] EXCEPT !.lastScraped = run.n, !.totalEvents = n,
                              !.successfulImports = n]
        ELSE table[s]]

\* lines 445-453: the source's warnings and errors are collected and its
\* statistics updated
UpdateSource ==
    /\ imp.pc = "select"
    /\ imp.j > Len(sourceResult.events)
    /\ imp' = [imp EXCEPT !.pc = "source", !.i = @ + 1, !.j = 1,
                          !.totalWarnings = @ \o sourceResult.warnings,
                          !.totalErrors = @ \o sourceResult.errors]
    /\ calendarSourcesTable' = withDatabaseFallback(
            updateCalendarSource(calendarSourcesTable, sourceResult.source,
                                 Len(sourceResult.events)),
            calendarSourcesTable)
    /\ UNCHANGED <<callVars, site, scrapePc, tasks, globalErrors, bulk, db,
                   dbChanges, events, importJobs, callerVars, asideVars, progressLog, run>>

\* lines 456-475: the job row is set to completed
CompleteJob ==
    /\ imp.pc = "source"
    /\ imp.i > Len(bulk.results)
    /\ importJobs' = withDatabaseFallback(
            updateImportJob(importJobs, imp.jobId, "completed", bulk.totalEvents,
                            imp.totalImported),
            importJobs)
    /\ imp' = [imp EXCEPT !.pc = "final"]
    /\ UNCHANGED <<callVars, site, scrapePc, tasks, globalErrors, bulk, db,
                   dbChanges, events, calendarSourcesTable, callerVars, asideVars,
                   progressLog, run>>

\* lines 477-485: the final report, then {jobId, results} is returned
ProgressFinal ==
    /\ imp.pc = "final"
    /\ progressLog' = report(progressLog, "final", Len(sources), Len(sources))
    /\ stream' = sendProgress(stream)
    /\ \E o \in callbackOutcomes :
         imp' = IF o = "throw" THEN [imp EXCEPT !.pc = "catch"]
                ELSE [imp EXCEPT !.pc = "done", !.outcome = "returned"]
    /\ UNCHANGED <<callVars, site, scrapePc, tasks, globalErrors, bulk, db,
                   dbChanges, events, importJobs, calendarSourcesTable,
                   callerVars, other, given, staticVars, computed, run>>

\* lines 487-506: the catch block sets the job row to failed and rethrows
FailJob ==
    /\ imp.pc = "catch"
    /\ importJobs' = withDatabaseFallback(
            [k \in 1..Len(importJobs) |->
                IF importJobs[k].id = imp.jobId
                THEN [importJobs[k] EXCEPT !.status = "failed",
                                           !.written = Append(@, "failed")]
                ELSE importJobs[k]],
            importJobs)
    /\ imp' = [imp EXCEPT !.pc = "done", !.outcome = "rejected"]
    /\ UNCHANGED <<callVars, site, scrapePc, tasks, globalErrors, bulk, db,
                   dbChanges, events, calendarSourcesTable, callerVars, asideVars,
                   progressLog, run>>

\* the caller starts another import of the same sources
ImportAgain ==
    /\ imp.pc = "done"
    /\ run.n < MaxRuns
    /\ imp' = idleImport
    /\ site' = [wayland |-> "unasked", arts |-> "unasked"]
    /\ scrapePc' = "uncalled"
    /\ tasks' = <<>>
    /\ globalErrors' = <<>>
    /\ bulk' = noBulk
    /\ UNCHANGED <<callVars, db, dbChanges, events, importJobs,
                   calendarSourcesTable, callerVars, asideVars, progressLog, run>>

-----------------------------------------------------------------------------
(* Inputs *)

\* the days a run can take place on
Todays == {MkDate(2025, 7, 20), MkDate(2025, 9, 15)}

noDateRange == [given |-> FALSE, startDate |-> MkDate(2025, 1, 1), endDate |-> MkDate(2025, 1, 1)]
DateRange(from, to) == [given |-> TRUE, startDate |-> from, endDate |-> to]

\* the windows a caller passes: none, one month, a window ending mid-month
DateRanges ==
    {noDateRange,
     DateRange(MkDate(2025, 8, 1), MkDate(2025, 8, 31)),
     DateRange(MkDate(2025, 7, 25), MkDate(2025, 8, 10))}

\* every source list of at most MaxSources identifiers, repeats included
SourceLists == UNION {[1..n -> SourceIds] : n \in 0..MaxSources}

unaskedSites == [wayland |-> "unasked", arts |-> "unasked"]

\* the calendar_sources table before and after initializeCalendarSources
noSources == [s \in {} |-> 0]
seededSources ==
    [s \in calendarSources |->
        [isActive |-> TRUE, lastScraped |-> 0, totalEvents |-> 0, successfulImports |-> 0]]

\* the sources an import is asked for in the model of the whole pipeline
ImportSourceIds == {"wayland-town", "arts-wayland", "tcan-events", UnknownSourceId}
ImportSourceLists == UNION {[1..n -> ImportSourceIds] : n \in 0..MaxSources}

-----------------------------------------------------------------------------
(* scrapeMultipleSources called on its own *)

Init ==
    /\ today \in Todays
    /\ entry = "service"
    /\ sources \in SourceLists
    /\ dateRange \in DateRanges
    /\ site = unaskedSites
    /\ scrapePc = "idle"
    /\ tasks = <<>>
    /\ globalErrors = <<>>
    /\ bulk = noBulk
    /\ db = "up"
    /\ dbChanges = 0
    /\ events = <<>>
    /\ importJobs = <<>>
    /\ calendarSourcesTable = noSources
    /\ progressCallback = "none"
    /\ reply = noReply
    /\ calls = 0
    /\ asideIdle
    /\ progressLog = <<>>
    /\ imp = idleImport
    /\ run = newRun(0)

Next ==
    \/ StartScrape
    \/ \E i \in 1..Len(tasks) : FetchWaylandMonth(i)
    \/ \E i \in 1..Len(tasks) : FetchArtsWayland(i)
    \/ \E i \in 1..Len(tasks) : CatchRejected(i)
    \/ PromiseAll

vars == <<callVars, site, scrapePc, tasks, globalErrors, bulk, importVars>>

Spec == Init /\ [][Next]_vars

-----------------------------------------------------------------------------
(* importFromMultipleSources, run after run *)

\* the state in which a route calls importFromMultipleSources: it has just
\* awaited initializeCalendarSources, which seeds the sources and the sample
\* event when the database is available
seededEvents ==
    << [id |-> 1, title |-> "Town Meeting",
        startDate |-> [date |-> MkDate(2025, 8, 15), hh |-> 19, mm |-> 0, padded |-> TRUE],
        startTime |-> ClockTime(19, 0), isAllDay |-> FALSE,
        calendarSource |-> "wayland-town", verificationStatus |-> "pending"] >>

\* what each entry point passes to importFromMultipleSources: the POST route
\* no callback and the window [today, today + 90 days], the SSE route its
\* guarded callback and no window, a direct caller anything
Requests ==
    {[entry |-> "POST", progressCallback |-> "none",
      dateRange |-> DateRange(MkDate(2025, 7, 20), addDays(MkDate(2025, 7, 20), WindowDays))],
     [entry |-> "SSE", progressCallback |-> "quiet", dateRange |-> noDateRange]}
    \cup [entry : {"service"}, progressCallback : {"none", "throwing"},
          dateRange : DateRanges]

InitImport ==
    /\ today = MkDate(2025, 7, 20)
    /\ sources \in ImportSourceLists
    /\ \E rq \in Requests :
         /\ entry = rq.entry
         /\ progressCallback = rq.progressCallback
         /\ dateRange = rq.dateRange
    /\ site = unaskedSites
    /\ scrapePc = "uncalled"
    /\ tasks = <<>>
    /\ globalErrors = <<>>
    /\ bulk = noBulk
    /\ db \in DbStates
    /\ dbChanges = 0
    /\ events = IF db = "up" THEN seededEvents ELSE <<>>
    /\ importJobs = <<>>
    /\ calendarSourcesTable = IF db = "up" THEN seededSources ELSE noSources
    /\ reply = noReply
    /\ calls = 0
    /\ asideIdle
    /\ progressLog = <<>>
    /\ imp = idleImport
    /\ run = newRun(0)

NextImport ==
    \/ PostReject
    \/ ImportCall
    \/ ProgressStart
    \/ StartScrape
    \/ \E i \in 1..Len(tasks) : FetchWaylandMonth(i)
    \/ \E i \in 1..Len(tasks) : FetchArtsWayland(i)
    \/ \E i \in 1..Len(tasks) : CatchRejected(i)
    \/ PromiseAll
    \/ BeginReconcile
    \/ ProgressSource
    \/ SelectExisting
    \/ WriteEvent
    \/ UpdateSource
    \/ CompleteJob
    \/ ProgressFinal
    \/ FailJob
    \/ DbChange

SpecImport == InitImport /\ [][NextImport]_vars

-----------------------------------------------------------------------------
(* the same import run again, on a database that stays available *)

InitRerun ==
    /\ InitImport
    /\ entry = "service"
    /\ db = "up"
    /\ progressCallback = "none"

NextRerun ==
    \/ ImportCall
    \/ ProgressStart
    \/ StartScrape
    \/ \E i \in 1..Len(tasks) : FetchWaylandMonth(i)
    \/ \E i \in 1..Len(tasks) : FetchArtsWayland(i)
    \/ \E i \in 1..Len(tasks) : CatchRejected(i)
    \/ PromiseAll
    \/ BeginReconcile
    \/ ProgressSource
    \/ SelectExisting
    \/ WriteEvent
    \/ UpdateSource
    \/ CompleteJob
    \/ ProgressFinal
    \/ ImportAgain

SpecRerun == InitRerun /\ [][NextRerun]_vars

-----------------------------------------------------------------------------
(* EventService reads and writes *)

\* getAllEvents(page = 1, limit = 50) and getImportJobs(limit = 10)
DefaultPageSize == 50
DefaultJobLimit == 10

\* FALLBACK_EVENTS
FALLBACK_EVENTS ==
    << [id |-> 1, title |-> "Board of Selectmen Meeting",
        startDate |-> [date |-> MkDate(2025, 8, 5), hh |-> 19, mm |-> 0, padded |-> TRUE],
        startTime |-> ClockTime(19, 0), isAllDay |-> FALSE,
        calendarSource |-> "wayland-town", verificationStatus |-> "pending"] >>

\* one entry of FALLBACK_SOURCES
fallbackSource(id, displayName, totalEvents) ==
    [id |-> id, displayName |-> displayName, isActive |-> TRUE, lastScraped |-> 0,
     totalEvents |-> totalEvents, successfulImports |-> 0]

FALLBACK_SOURCES ==
    << fallbackSource("wayland-town", "Town of Wayland", 8),
       fallbackSource("tcan-events", "TCAN Events", 12),
       fallbackSource("wayland-library", "Wayland Library", 6),
       fallbackSource("wayland-high-athletics", "Wayland High Athletics", 15),
       fallbackSource("arts-wayland", "Arts Wayland", 7),
       fallbackSource("wayland-wcpa", "Wayland WCPA", 5),
       fallbackSource("town-planner", "Town Planner", 4),
       fallbackSource("wayland-high-school", "Wayland High School", 3),
       fallbackSource("wayland-middle-athletics", "Wayland Middle Athletics", 4),
       fallbackSource("patch-community", "Patch Community", 3) >>

\* the positions of FALLBACK_SOURCES in the order of their displayName
\* (orderBy(calendarSourcesTable.displayName), compared byte by byte)
byDisplayName == <<5, 10, 2, 7, 1, 4, 8, 3, 9, 6>>

\* an insert that replaces the row of a source that has one (an upsert)
insertOrReplaceSources(table) ==
    [s \in DOMAIN table \cup {FALLBACK_SOURCES[k].id : k \in 1..Len(FALLBACK_SOURCES)} |->
        seededSources[s]]

\* initializeCalendarSources lines 238-258: each source is inserted unless
\* a row with its id exists
insertSources(table) ==
    [s \in DOMAIN table \cup {FALLBACK_SOURCES[k].id : k \in 1..Len(FALLBACK_SOURCES)} |->
        IF s \in DOMAIN table THEN table[s] ELSE seededSources[s]]

\* seedSampleEvents: the sample event is inserted when the table is empty
seedSampleEvents(table) == IF table # <<>> THEN table ELSE seededEvents

\* select().from(calendarSourcesTable).orderBy(displayName)
selectSources(table) ==
    LET ids == SelectSeq([k \in 1..Len(byDisplayName) |-> FALLBACK_SOURCES[byDisplayName[k]]],
                         LAMBDA f : f.id \in DOMAIN table)
    IN  [k \in 1..Len(ids) |->
            [id |-> ids[k].id, displayName |-> ids[k].displayName,
             isActive |-> table[ids[k].id].isActive,
             lastScraped |-> table[ids[k].id].lastScraped,
             totalEvents |-> table[ids[k].id].totalEvents,
             successfulImports |-> table[ids[k].id].successfulImports]]

\* the characters of a stored startDate that decide its order: the day, then
\* the digits of the time with ':' (which sorts after every digit) as 10
startDateText(sd) ==
    <<getTime(sd.date)>>
    \o (IF sd.padded \/ sd.hh >= 10 THEN <<sd.hh \div 10, sd.hh % 10>> ELSE <<sd.hh>>)
    \o <<10, sd.mm \div 10, sd.mm % 10>>

\* the order of two texts
RECURSIVE textBefore(_, _)
textBefore(a, b) ==
    IF a = <<>> THEN b # <<>>
    ELSE IF b = <<>> THEN FALSE
    ELSE IF Head(a) # Head(b) THEN Head(a) < Head(b)
    ELSE textBefore(Tail(a), Tail(b))

\* orderBy(events.startDate)
RECURSIVE orderByStartDate(_)
orderByStartDate(rows) ==
    IF rows = <<>> THEN <<>>
    ELSE LET first == CHOOSE k \in 1..Len(rows) :
                        /\ \A j \in 1..Len(rows) :
                             ~textBefore(startDateText(rows[j].startDate),
                                         startDateText(rows[k].startDate))
                        /\ \A j \in 1..(k - 1) :
                             textBefore(startDateText(rows[k].startDate),
                                        startDateText(rows[j].startDate))
         IN  <<rows[first]>>
             \o orderByStartDate(SubSeq(rows, 1, first - 1) \o SubSeq(rows, first + 1, Len(rows)))

\* .limit(limit).offset((page - 1) * limit), and Array.slice of the same span
pageOf(rows, page, limit) ==
    [k \in 1..(IF Len(rows) > page * limit THEN limit
               ELSE IF Len(rows) > (page - 1) * limit THEN Len(rows) - (page - 1) * limit
               ELSE 0) |-> rows[(page - 1) * limit + k]]

\* getAllEvents lines 602-654 on a working database
selectAllEvents(table, page, limit, calendarSource) ==
    LET found == SelectSeq(table, LAMBDA r : calendarSource = "" \/ r.calendarSource = calendarSource)
    IN  << [events |-> pageOf(orderByStartDate(found), page, limit), total |-> Len(found)] >>

\* getAllEvents lines 656-659
fallbackAllEvents(page, limit) ==
    << [events |-> pageOf(FALLBACK_EVENTS, page, limit), total |-> Len(FALLBACK_EVENTS)] >>

\* getEventStats lines 756-762 on a working database
selectEventStats(table) ==
    << [totalEvents |-> Len(table),
        sources |-> {[name |-> s,
                      count |-> Cardinality({k \in 1..Len(table) : table[k].calendarSource = s})] :
                     s \in {table[k].calendarSource : k \in 1..Len(table)}},
        lastImport |-> IF table = <<>> THEN "null" ELSE "importedAt"] >>

\* getEventStats lines 764-787
fallbackEventStats ==
    << [totalEvents |-> Len(FALLBACK_EVENTS),
        sources |-> {[name |-> FALLBACK_SOURCES[k].displayName,
                      count |-> FALLBACK_SOURCES[k].totalEvents] : k \in 1..Len(FALLBACK_SOURCES)},
        lastImport |-> "2025-08-01T12:00:00.000Z"] >>

\* getImportJobs: select().from(importJobs).orderBy(desc(createdAt)).limit(limit)
selectImportJobs(jobs, limit) ==
    pageOf([k \in 1..Len(jobs) |-> jobs[Len(jobs) + 1 - k]], 1, limit)

\* select / update ... where(eq(id, id)): the rows with that id
rowsWithId(table, id) == SelectSeq(table, LAMBDA r : r.id = id)

\* delete(events).where(eq(events.id, id))
deleteEventRow(table, id) == SelectSeq(table, LAMBDA r : r.id # id)

\* an event entered by hand
manualEvent ==
    [title |-> "Garden Club Plant Sale",
     startDate |-> [date |-> MkDate(2025, 8, 9), hh |-> 9, mm |-> 0, padded |-> TRUE],
     startTime |-> ClockTime(9, 0), isAllDay |-> FALSE,
     calendarSource |-> "wayland-town", verificationStatus |-> "pending"]

\* the arguments the calls are served with
ServedPages == {1, 2}
ServedFilters == {"", "tcan-events"}
ServedEventIds == {1, 2}
ServedCounts == {5}

\* a request is served while no import is under way
Serving == imp.pc \in {"idle", "done"} /\ calls < MaxCalls

\* the value a call returns to its caller
returnValue(op, arg, value) ==
    [op |-> op, arg |-> arg, dbWas |-> db, outcome |-> "returned", value |-> value]

\* initializeCalendarSources
InitializeCalendarSources ==
    /\ Serving
    /\ calendarSourcesTable' = withDatabaseFallback(insertSources(calendarSourcesTable),
                                                    calendarSourcesTable)
    /\ events' = withDatabaseFallback(seedSampleEvents(events), events)
    /\ reply' = returnValue("initializeCalendarSources", 0, <<>>)
    /\ calls' = calls + 1
    /\ UNCHANGED <<callVars, site, scrapePc, tasks, globalErrors, bulk, db,
                   dbChanges, progressCallback, asideVars, progressLog, imp, run, importJobs>>

\* getAllEvents(page, limit, {calendarSource}), which initializes the sources
\* and the sample event first
GetAllEvents(page, calendarSource) ==
    /\ Serving
    /\ calendarSourcesTable' = withDatabaseFallback(insertSources(calendarSourcesTable),
                                                    calendarSourcesTable)
    /\ events' = withDatabaseFallback(seedSampleEvents(events), events)
    /\ reply' = returnValue("getAllEvents", page,
                    withDatabaseFallback(
                        selectAllEvents(seedSampleEvents(events), page, DefaultPageSize,
                                        calendarSource),
                        fallbackAllEvents(page, DefaultPageSize)))
    /\ calls' = calls + 1
    /\ UNCHANGED <<callVars, site, scrapePc, tasks, globalErrors, bulk, db,
                   dbChanges, progressCallback, asideVars, progressLog, imp, run, importJobs>>

\* getCalendarSources: the rows, after initializing when there is none
GetCalendarSources ==
    /\ Serving
    /\ LET initialize == DOMAIN calendarSourcesTable = {}
           after == IF initialize THEN insertSources(calendarSourcesTable)
                    ELSE calendarSourcesTable
       IN  /\ calendarSourcesTable' = withDatabaseFallback(after, calendarSourcesTable)
           /\ events' = withDatabaseFallback(
                  IF initialize THEN seedSampleEvents(events) ELSE events, events)
           /\ reply' = returnValue("getCalendarSources", 0,
                           withDatabaseFallback(selectSources(after), FALLBACK_SOURCES))
    /\ calls' = calls + 1
    /\ UNCHANGED <<callVars, site, scrapePc, tasks, globalErrors, bulk, db,
                   dbChanges, progressCallback, asideVars, progressLog, imp, run, importJobs>>

\* getEventStats, which initializes the sources and the sample event first
GetEventStats ==
    /\ Serving
    /\ calendarSourcesTable' = withDatabaseFallback(insertSources(calendarSourcesTable),
                                                    calendarSourcesTable)
    /\ events' = withDatabaseFallback(seedSampleEvents(events), events)
    /\ reply' = returnValue("getEventStats", 0,
                    withDatabaseFallback(selectEventStats(seedSampleEvents(events)),
                                         fallbackEventStats))
    /\ calls' = calls + 1
    /\ UNCHANGED <<callVars, site, scrapePc, tasks, globalErrors, bulk, db,
                   dbChanges, progressCallback, asideVars, progressLog, imp, run, importJobs>>

\* checkDatabase (health route lines 85-125): ensureInitialized() is false
\* without a connection, isDatabaseHealthy() false on an unhealthy one
checkDatabase == IF db \in {"null", "unhealthy"} THEN "fail" ELSE "pass"

\* checkAPI (lines 127-169): pass when /api/test answers 200, warn otherwise
ApiChecks == {"pass", "warn"}

\* lines 62-71: the overall status of the four checks
overallStatus(checks) ==
    IF \E k \in 1..Len(checks) : checks[k] = "fail" THEN "unhealthy"
    ELSE IF \E k \in 1..Len(checks) : checks[k] = "warn" THEN "degraded"
    ELSE "healthy"

\* lines 76-77: the HTTP status of the response
httpStatus(status) == IF status = "unhealthy" THEN 503 ELSE 200

\* GET /api/health: the four checks, of which checkEvents calls
\* getEventStats and checkSources getCalendarSources (neither throws, so
\* both pass), then the overall status and the response
GetHealth ==
    /\ Serving
    /\ calendarSourcesTable' = withDatabaseFallback(insertSources(calendarSourcesTable),
                                                    calendarSourcesTable)
    /\ events' = withDatabaseFallback(seedSampleEvents(events), events)
    /\ \E api \in ApiChecks :
         LET status == overallStatus(<<checkDatabase, api, "pass", "pass">>)
         IN  reply' = returnValue("health", 0,
                         [status |-> status, httpStatus |-> httpStatus(status),
                          database |-> checkDatabase])
    /\ calls' = calls + 1
    /\ UNCHANGED <<callVars, site, scrapePc, tasks, globalErrors, bulk, db,
                   dbChanges, progressCallback, asideVars, progressLog, imp, run, importJobs>>

\* getImportJobs(limit = 10)
GetImportJobs ==
    /\ Serving
    /\ reply' = returnValue("getImportJobs", 0,
                    withDatabaseFallback(selectImportJobs(importJobs, DefaultJobLimit), <<>>))
    /\ calls' = calls + 1
    /\ UNCHANGED <<callVars, site, scrapePc, tasks, globalErrors, bulk, db,
                   dbChanges, progressCallback, asideVars, progressLog, imp, run, events, importJobs, calendarSourcesTable>>

\* getImportJob(id): the row, or null
GetImportJob(id) ==
    /\ Serving
    /\ reply' = returnValue("getImportJob", id,
                    withDatabaseFallback(pageOf(rowsWithId(importJobs, id), 1, 1), <<>>))
    /\ calls' = calls + 1
    /\ UNCHANGED <<callVars, site, scrapePc, tasks, globalErrors, bulk, db,
                   dbChanges, progressCallback, asideVars, progressLog, imp, run, events, importJobs, calendarSourcesTable>>

\* createEvent(eventData): the inserted row
CreateEvent ==
    /\ Serving
    /\ events' = withDatabaseFallback(insertEventRow(events, manualEvent), events)
    /\ reply' = returnValue("createEvent", 0,
                    withDatabaseFallback(
                        rowsWithId(insertEventRow(events, manualEvent), nextRowId(events)),
                        <<FALLBACK_EVENTS[1]>>))
    /\ calls' = calls + 1
    /\ UNCHANGED <<callVars, site, scrapePc, tasks, globalErrors, bulk, db,
                   dbChanges, progressCallback, asideVars, progressLog, imp, run, importJobs, calendarSourcesTable>>

\* updateEvent(id, eventData): the updated row, undefined when there is none
UpdateEvent(id) ==
    /\ Serving
    /\ events' = withDatabaseFallback(updateEventRow(events, id, manualEvent), events)
    /\ reply' = returnValue("updateEvent", id,
                    withDatabaseFallback(
                        pageOf(rowsWithId(updateEventRow(events, id, manualEvent), id), 1, 1),
                        <<FALLBACK_EVENTS[1]>>))
    /\ calls' = calls + 1
    /\ UNCHANGED <<callVars, site, scrapePc, tasks, globalErrors, bulk, db,
                   dbChanges, progressCallback, asideVars, progressLog, imp, run, importJobs, calendarSourcesTable>>

\* deleteEvent(id)
DeleteEvent(id) ==
    /\ Serving
    /\ events' = withDatabaseFallback(deleteEventRow(events, id), events)
    /\ reply' = returnValue("deleteEvent", id, <<>>)
    /\ calls' = calls + 1
    /\ UNCHANGED <<callVars, site, scrapePc, tasks, globalErrors, bulk, db,
                   dbChanges, progressCallback, asideVars, progressLog, imp, run, importJobs, calendarSourcesTable>>

\* updateCalendarSource(id, {lastScraped, totalEvents, successfulImports})
UpdateCalendarSource(id, n) ==
    /\ Serving
    /\ calendarSourcesTable' = withDatabaseFallback(
            updateCalendarSource(calendarSourcesTable, id, n), calendarSourcesTable)
    /\ reply' = returnValue("updateCalendarSource", 0, <<>>)
    /\ calls' = calls + 1
    /\ UNCHANGED <<callVars, site, scrapePc, tasks, globalErrors, bulk, db,
                   dbChanges, progressCallback, asideVars, progressLog, imp, run, events, importJobs>>

\* the import of one source for August 2025, among the other requests
ServiceSourceLists == {<<>>, <<"tcan-events">>, <<"wayland-town">>}

InitService ==
    /\ InitImport
    /\ entry = "service"
    /\ progressCallback = "none"
    /\ sources \in ServiceSourceLists
    /\ dateRange = DateRange(MkDate(2025, 8, 1), MkDate(2025, 8, 31))

NextService ==
    \/ ImportCall
    \/ ProgressStart
    \/ StartScrape
    \/ \E i \in 1..Len(tasks) : FetchWaylandMonth(i)
    \/ PromiseAll
    \/ BeginReconcile
    \/ ProgressSource
    \/ SelectExisting
    \/ WriteEvent
    \/ UpdateSource
    \/ CompleteJob
    \/ ProgressFinal
    \/ DbChange
    \/ InitializeCalendarSources
    \/ \E page \in ServedPages, calendarSource \in ServedFilters :
         GetAllEvents(page, calendarSource)
    \/ GetCalendarSources
    \/ GetEventStats
    \/ GetHealth
    \/ GetImportJobs
    \/ \E id \in RandomJobIds : GetImportJob(id)
    \/ CreateEvent
    \/ \E id \in ServedEventIds : UpdateEvent(id)
    \/ \E id \in ServedEventIds : DeleteEvent(id)
    \/ \E id \in ServiceSourceLists, n \in ServedCounts :
         id # <<>> /\ UpdateCalendarSource(id[1], n)

SpecService == InitService /\ [][NextService]_vars

-----------------------------------------------------------------------------
(* A second importFromMultipleSources call that overlaps the first *)

\* the month loop of scrapeWaylandTown from month k on, the site answering
\* every fetch in the same way
RECURSIVE scrapeMonths(_, _, _)
scrapeMonths(result, k, mode) ==
    IF k > Len(monthsToScrape) THEN result
    ELSE scrapeMonths(scrapeMonth(result, monthsToScrape[k],
                                  waylandResponse(mode, monthsToScrape[k])),
                      k + 1, mode)

\* scrapeWaylandTown from its first fetch to its return
scrapeWaylandTown(mode) ==
    waylandTownFallback(scrapeMonths(emptyResult("wayland-town"), 1, mode))

\* the results of scrapeMultipleSources(srcs) once every extraction settled
RECURSIVE scrapeMultipleSources(_, _, _, _)
scrapeMultipleSources(srcs, waylandMode, artsMode, random) ==
    IF srcs = <<>> THEN <<>>
    ELSE (IF Head(srcs) = "wayland-town" THEN <<scrapeWaylandTown(waylandMode)>>
          ELSE IF Head(srcs) = "arts-wayland"
          THEN <<scrapeArtsWayland(artsResponse(artsMode), random)>>
          ELSE IF Head(srcs) \in calendarSources THEN <<scrapeStub(Head(srcs))>>
          ELSE <<>>)
         \o scrapeMultipleSources(Tail(srcs), waylandMode, artsMode, random)

\* the candidate the overlapping call is at
otherEvent == other.results[other.i].events[other.j]

\* lines 385-402 of the overlapping call: its job row is created
OtherCall ==
    /\ other.pc = "idle"
    /\ \E made \in (IF databaseAvailable THEN {0} ELSE RandomJobIds) :
         /\ importJobs' = withDatabaseFallback(
                Append(importJobs, NewImportJob(Len(importJobs) + 1)), importJobs)
         /\ other' = [other EXCEPT
                !.pc = "scrape",
                !.jobId = withDatabaseFallback(Len(importJobs) + 1, made)]
    /\ UNCHANGED <<callVars, scrapePc, tasks, globalErrors, bulk, db, dbChanges,
                   callerVars, stream, given, staticVars, computed, progressLog, imp, run, site, events,
                   calendarSourcesTable>>

\* line 414 of the overlapping call: its extractions run and settle
OtherScrape ==
    /\ other.pc = "scrape"
    /\ \E waylandMode \in (IF site.wayland = "unasked" THEN WaylandSites ELSE {site.wayland}),
          artsMode \in (IF site.arts = "unasked" THEN ArtsSites ELSE {site.arts}) :
       \E random \in (IF artsMode = "live" THEN RandomDays ELSE {0}) :
         /\ site' = [wayland |-> IF \E k \in 1..Len(sources) : sources[k] = "wayland-town"
                                 THEN waylandMode ELSE site.wayland,
                     arts |-> IF \E k \in 1..Len(sources) : sources[k] = "arts-wayland"
                              THEN artsMode ELSE site.arts]
         /\ other' = [other EXCEPT
                !.pc = "select", !.i = 1, !.j = 1,
                !.results = scrapeMultipleSources(sources, waylandMode, artsMode, random)]
    /\ UNCHANGED <<callVars, scrapePc, tasks, globalErrors, bulk, db, dbChanges,
                   callerVars, stream, given, staticVars, computed, progressLog, imp, run, events, importJobs,
                   calendarSourcesTable>>

\* createOrUpdateEvent lines 544-559 in the overlapping call: the lookup
OtherSelect ==
    /\ other.pc = "select"
    /\ other.i <= Len(other.results)
    /\ other.j <= Len(other.results[other.i].events)
    /\ LET newEvent == convertEnhancedScrapedEventToNewEvent(otherEvent)
       IN  other' = withDatabaseFallback(
                [other EXCEPT !.pc = "write", !.existing = selectExisting(events, newEvent)],
                [other EXCEPT !.j = @ + 1, !.totalImported = @ + 1])
    /\ UNCHANGED <<callVars, scrapePc, tasks, globalErrors, bulk, db, dbChanges,
                   callerVars, stream, given, staticVars, computed, progressLog, imp, run, site, events, importJobs,
                   calendarSourcesTable>>

\* createOrUpdateEvent lines 561-576 in the overlapping call: update or insert
OtherWrite ==
    /\ other.pc = "write"
    /\ LET newEvent == convertEnhancedScrapedEventToNewEvent(otherEvent)
       IN  /\ events' = withDatabaseFallback(
                  IF other.existing # 0 THEN updateEventRow(events, other.existing, newEvent)
                  ELSE insertEventRow(events, newEvent),
                  events)
           /\ other' = [other EXCEPT
                  !.pc = "select", !.j = @ + 1, !.existing = 0,
                  !.totalImported = @ + 1,
                  !.insertedKeys = IF databaseAvailable /\ other.existing = 0
                                   THEN @ \cup {newEvent} ELSE @]
    /\ UNCHANGED <<callVars, scrapePc, tasks, globalErrors, bulk, db, dbChanges,
                   callerVars, stream, given, staticVars, computed, progressLog, imp, run, site, importJobs,
                   calendarSourcesTable>>

\* lines 445-453 in the overlapping call: the source's statistics
OtherUpdateSource ==
    /\ other.pc = "select"
    /\ other.i <= Len(other.results)
    /\ other.j > Len(other.results[other.i].events)
    /\ calendarSourcesTable' = withDatabaseFallback(
            updateCalendarSource(calendarSourcesTable, other.results[other.i].source,
                                 Len(other.results[other.i].events)),
            calendarSourcesTable)
    /\ other' = [other EXCEPT !.i = @ + 1, !.j = 1]
    /\ UNCHANGED <<callVars, scrapePc, tasks, globalErrors, bulk, db, dbChanges,
                   callerVars, stream, given, staticVars, computed, progressLog, imp, run, site, events, importJobs>>

\* lines 456-485 in the overlapping call: its job row is set to completed
OtherComplete ==
    /\ other.pc = "select"
    /\ other.i > Len(other.results)
    /\ importJobs' = withDatabaseFallback(
            updateImportJob(importJobs, other.jobId, "completed",
                            sumEvents(other.results), other.totalImported),
            importJobs)
    /\ other' = [other EXCEPT !.pc = "done"]
    /\ UNCHANGED <<callVars, scrapePc, tasks, globalErrors, bulk, db, dbChanges,
                   callerVars, stream, given, staticVars, computed, progressLog, imp, run, site, events,
                   calendarSourcesTable>>

\* the requests two overlapping calls are made with
OverlapSourceLists == {<<"wayland-town">>, <<"wayland-town", "tcan-events">>}

\* the windows they are made with
OverlapDateRanges == DateRanges \ {noDateRange}

InitOverlap ==
    /\ today = MkDate(2025, 7, 20)
    /\ entry = "service"
    /\ sources \in OverlapSourceLists
    /\ dateRange \in OverlapDateRanges
    /\ site = unaskedSites
    /\ scrapePc = "uncalled"
    /\ tasks = <<>>
    /\ globalErrors = <<>>
    /\ bulk = noBulk
    /\ db = "up"
    /\ dbChanges = 0
    /\ events = seededEvents
    /\ importJobs = <<>>
    /\ calendarSourcesTable = seededSources
    /\ progressCallback = "none"
    /\ reply = noReply
    /\ calls = 0
    /\ other = [idleOther EXCEPT !.pc = "idle"]
    /\ stream = noStream
    /\ given = <<>>
    /\ computed = <<>>
    /\ staticIdle
    /\ progressLog = <<>>
    /\ imp = idleImport
    /\ run = newRun(0)

NextOverlap ==
    \/ ImportCall
    \/ ProgressStart
    \/ StartScrape
    \/ \E i \in 1..Len(tasks) : FetchWaylandMonth(i)
    \/ PromiseAll
    \/ BeginReconcile
    \/ ProgressSource
    \/ SelectExisting
    \/ WriteEvent
    \/ UpdateSource
    \/ CompleteJob
    \/ ProgressFinal
    \/ OtherCall
    \/ OtherScrape
    \/ OtherSelect
    \/ OtherWrite
    \/ OtherUpdateSource
    \/ OtherComplete

SpecOverlap == InitOverlap /\ [][NextOverlap]_vars

-----------------------------------------------------------------------------
(* GET /api/multi-source-import-sse: the stream of the response *)

\* the default queuing strategy of new ReadableStream(source)
highWaterMark == 1

\* what JSON.parse(sourcesParam) gave: an array, or a value without join()
\* such as a string
ParsedSources == {"array", "string"}

\* a route that enqueues the terminal event and leaves the stream open
finishWithoutClose(st, returned) ==
    IF canEnqueue(st)
    THEN [enqueue(st, IF returned THEN "complete" ELSE "error") EXCEPT
              !.pulling = FALSE]
    ELSE [st EXCEPT !.pulling = FALSE]

\* lines 69-90 and 92-103: the terminal event is enqueued and the stream
\* closed; when the import returned and the enqueue throws, the catch block's
\* enqueue throws again and pull rejects
finish(st, returned) ==
    IF canEnqueue(st)
    THEN [enqueue(st, IF returned THEN "complete" ELSE "error") EXCEPT
              !.closeRequested = TRUE, !.pulling = FALSE]
    ELSE [st EXCEPT !.pulling = FALSE]

\* lines 27-37: the stream is constructed and start() enqueues the status event
SseGet ==
    /\ entry = "SSE"
    /\ stream.state = "none"
    /\ stream' = enqueue([stream EXCEPT !.state = "readable", !.started = TRUE], "status")
    /\ UNCHANGED <<callVars, site, scrapePc, tasks, globalErrors, bulk, db, dbChanges,
                   events, importJobs, calendarSourcesTable, callerVars, other, given, staticVars,
                   computed, progressLog, imp, run>>

\* the response reads a chunk; the stream closes when the last chunk of a
\* stream asked to close is read
SseRead ==
    /\ stream.state = "readable"
    /\ stream.queued > 0
    /\ stream' = [stream EXCEPT
            !.queued = @ - 1,
            !.state = IF stream.queued = 1 /\ stream.closeRequested THEN "closed" ELSE @]
    /\ UNCHANGED <<callVars, site, scrapePc, tasks, globalErrors, bulk, db, dbChanges,
                   events, importJobs, calendarSourcesTable, callerVars, other, given, staticVars,
                   computed, progressLog, imp, run>>

\* the client disconnects: the stream is cancelled and its queue dropped;
\* cancel() (lines 107-109) only logs
SseCancel ==
    /\ stream.state = "readable"
    /\ stream' = [stream EXCEPT !.state = "cancelled", !.queued = 0]
    /\ UNCHANGED <<callVars, site, scrapePc, tasks, globalErrors, bulk, db, dbChanges,
                   events, importJobs, calendarSourcesTable, callerVars, other, given, staticVars,
                   computed, progressLog, imp, run>>

\* pull() lines 39-48, called by the stream when it is readable, not asked to
\* close, not already pulling and its queue is below the high-water mark:
\* sources.join throws for a value that is no array (lines 92-103 follow),
\* otherwise the sources are initialized and the import is called
SsePull ==
    /\ stream.state = "readable"
    /\ stream.started
    /\ ~stream.pulling
    /\ ~stream.closeRequested
    /\ stream.queued < highWaterMark
    /\ IF stream.json # "array"
       THEN /\ stream' = finish([stream EXCEPT !.pulls = @ + 1], FALSE)
            /\ UNCHANGED <<calendarSourcesTable, events, imp>>
       ELSE /\ stream' = [stream EXCEPT !.pulls = @ + 1, !.pulling = TRUE]
            /\ calendarSourcesTable' =
                   withDatabaseFallback(insertSources(calendarSourcesTable),
                                        calendarSourcesTable)
            /\ events' = withDatabaseFallback(seedSampleEvents(events), events)
            /\ imp' = idleImport
    /\ UNCHANGED <<callVars, site, scrapePc, tasks, globalErrors, bulk, db, dbChanges,
                   importJobs, callerVars, other, given, staticVars, computed, progressLog, run>>

\* lines 69-104: the import settled
SseFinish ==
    /\ stream.pulling
    /\ imp.pc = "done"
    /\ stream' = finish(stream, imp.outcome = "returned")
    /\ UNCHANGED <<callVars, site, scrapePc, tasks, globalErrors, bulk, db, dbChanges,
                   events, importJobs, calendarSourcesTable, callerVars, other, given, staticVars,
                   computed, progressLog, imp, run>>

InitSSE ==
    /\ today = MkDate(2025, 7, 20)
    /\ entry = "SSE"
    /\ progressCallback = "quiet"
    /\ dateRange = noDateRange
    /\ \E json \in ParsedSources :
         /\ stream = [noStream EXCEPT !.json = json]
         /\ sources \in (IF json = "array" THEN ImportSourceLists ELSE {<<>>})
    /\ site = unaskedSites
    /\ scrapePc = "uncalled"
    /\ tasks = <<>>
    /\ globalErrors = <<>>
    /\ bulk = noBulk
    /\ db \in DbStates
    /\ dbChanges = 0
    /\ events = <<>>
    /\ importJobs = <<>>
    /\ calendarSourcesTable = noSources
    /\ reply = noReply
    /\ calls = 0
    /\ other = idleOther
    /\ given = <<>>
    /\ computed = <<>>
    /\ staticIdle
    /\ progressLog = <<>>
    /\ imp = [idleImport EXCEPT !.pc = "route"]
    /\ run = newRun(0)

NextSSE ==
    \/ SseGet
    \/ SseRead
    \/ SseCancel
    \/ SsePull
    \/ SseFinish
    \/ ImportCall
    \/ ProgressStart
    \/ StartScrape
    \/ \E i \in 1..Len(tasks) : FetchWaylandMonth(i)
    \/ \E i \in 1..Len(tasks) : FetchArtsWayland(i)
    \/ \E i \in 1..Len(tasks) : CatchRejected(i)
    \/ PromiseAll
    \/ BeginReconcile
    \/ ProgressSource
    \/ SelectExisting
    \/ WriteEvent
    \/ UpdateSource
    \/ CompleteJob
    \/ ProgressFinal

SpecSSE == InitSSE /\ [][NextSSE]_vars

-----------------------------------------------------------------------------
(* The time and URL normalizers, applied to one input *)

\* convertTo24Hour of the single-source scraper.  date-fns
\* parse(timeStr, "h:mma") accepts only "h:mma", minutes written and no
\* space; for anything else format() throws on the Invalid Date and the catch
\* returns the input as it was.  A string with ':' is left-padded to five
\* characters, any other is read as an hour.
convertTo24Hour(t) ==
    IF t.meridiem # "none"
    THEN IF t.hasMinutes /\ ~t.space /\ t.h \in 1..12 /\ t.m \in 0..59
         THEN [form |-> "HH:mm",
               hh |-> (t.h % 12) + (IF t.meridiem = "pm" THEN 12 ELSE 0), mm |-> t.m]
         ELSE [form |-> "input", hh |-> t.h, mm |-> t.m]
    ELSE IF t.hasMinutes THEN [form |-> "HH:mm", hh |-> t.h, mm |-> t.m]
    ELSE [form |-> "HH:mm", hh |-> t.h, mm |-> 0]

\* the time tokens: 12-hour with am/pm (with or without minutes, with or
\* without a space), 24-hour with ':', and a bare hour
Minutes == {0, 5, 30, 59}
TimeTexts ==
    {TimeText(h, m, TRUE, meridiem, space) :
        h \in 1..12, m \in Minutes, meridiem \in {"am", "pm"}, space \in BOOLEAN}
    \cup {TimeText(h, 0, FALSE, meridiem, space) :
        h \in 1..12, meridiem \in {"am", "pm"}, space \in BOOLEAN}
    \cup {TimeText(h, m, TRUE, "none", FALSE) : h \in 0..23, m \in Minutes}
    \cup {TimeText(h, 0, FALSE, "none", FALSE) : h \in 0..23}

\* An href is a sequence of pieces of text; an absent attribute has no text.
noUrl == [present |-> FALSE, text |-> <<>>]
Url(text) == [present |-> TRUE, text |-> text]

\* url.startsWith(prefix)
startsWith(text, prefix) ==
    /\ Len(text) >= Len(prefix)
    /\ SubSeq(text, 1, Len(prefix)) = prefix

\* url.trim()
RECURSIVE trim(_)
trim(text) ==
    IF text = <<>> THEN text
    ELSE IF Head(text) = " " THEN trim(Tail(text))
    ELSE IF text[Len(text)] = " " THEN trim(SubSeq(text, 1, Len(text) - 1))
    ELSE text

\* 'https://www.wayland.ma.us'
waylandBaseUrl == <<"https:", "/", "/", "www.wayland.ma.us">>

\* MultiSourceScraper.normalizeEventUrl(url, baseUrl)
normalizeEventUrl(url, baseUrl) ==
    IF ~url.present \/ url.text = <<>> THEN noUrl
    ELSE LET u == trim(url.text)
         IN  IF u = <<>> \/ u = <<"#">> \/ u = <<"/">> \/ startsWith(u, <<"javascript:">>)
             THEN noUrl
             ELSE IF startsWith(u, <<"http:", "/", "/">>)
                     \/ startsWith(u, <<"https:", "/", "/">>)
             THEN Url(u)
             ELSE IF startsWith(u, <<"/", "/">>) THEN Url(<<"https:">> \o u)
             ELSE IF startsWith(u, <<"/">>) THEN Url(baseUrl \o u)
             ELSE IF startsWith(u, <<"mailto:">>) THEN Url(u)
             ELSE Url(baseUrl \o <<"/">> \o u)

\* scrapeWaylandTown lines 205-224 and 308: the URL of a scraped link
waylandTownUrl(url) ==
    IF ~url.present \/ url.text = <<>> THEN noUrl
    ELSE LET u == trim(url.text)
         IN  IF startsWith(u, <<"/">>) THEN Url(waylandBaseUrl \o u)
             ELSE IF startsWith(u, <<"http:", "/", "/">>)
             THEN Url(<<"https:">> \o Tail(u))
             ELSE IF ~startsWith(u, <<"https:", "/", "/">>) /\ ~startsWith(u, <<"mailto:">>)
             THEN Url(waylandBaseUrl \o <<"/">> \o u)
             ELSE Url(u)

\* the hrefs: every text of at most MaxHrefLen pieces, and the usual shapes
\* with a host and a path
MaxHrefLen == 3
HrefPieces == {"/", "#", " ", "http:", "https:", "mailto:", "javascript:", "path"}
Hrefs ==
    {noUrl}
    \cup {Url(text) : text \in UNION {[1..n -> HrefPieces] : n \in 0..MaxHrefLen}}
    \cup {Url(<<"/", "/", "host", "/", "path">>),
          Url(<<"http:", "/", "/", "host", "/", "path">>),
          Url(<<"https:", "/", "/", "host", "/", "path">>),
          Url(<<" ", "/", "path", "/", "path", " ">>),
          Url(<<"mailto:", "clerk", "@", "host">>),
          Url(<<"javascript:", "void(0)">>)}

\* the input the normalizers are given and what they computed
TimeInput(t) == [kind |-> "time", time |-> t, url |-> noUrl]
UrlInput(u) == [kind |-> "url", time |-> noTimeText, url |-> u]

\* parseTime and convertTo24Hour are applied to a time token
NormalizeTime ==
    /\ computed = <<>>
    /\ Len(given) = 1
    /\ given[1].kind = "time"
    /\ computed' = <<[parseTime |-> parseTime(given[1].time),
                      convertTo24Hour |-> convertTo24Hour(given[1].time),
                      normalizeEventUrl |-> noUrl,
                      waylandTownUrl |-> noUrl]>>
    /\ UNCHANGED <<callVars, site, scrapePc, tasks, globalErrors, bulk, db, dbChanges,
                   events, importJobs, calendarSourcesTable, callerVars, other, stream,
                   given, staticVars, progressLog, imp, run>>

\* normalizeEventUrl and the inline handling are applied to an href
NormalizeUrl ==
    /\ computed = <<>>
    /\ Len(given) = 1
    /\ given[1].kind = "url"
    /\ computed' = <<[parseTime |-> undefinedTime,
                      convertTo24Hour |-> convertTo24Hour(noTimeText),
                      normalizeEventUrl |-> normalizeEventUrl(given[1].url, waylandBaseUrl),
                      waylandTownUrl |-> waylandTownUrl(given[1].url)]>>
    /\ UNCHANGED <<callVars, site, scrapePc, tasks, globalErrors, bulk, db, dbChanges,
                   events, importJobs, calendarSourcesTable, callerVars, other, stream,
                   given, staticVars, progressLog, imp, run>>

InitNormalize ==
    /\ today = MkDate(2025, 7, 20)
    /\ entry = "service"
    /\ sources = <<>>
    /\ dateRange = noDateRange
    /\ site = unaskedSites
    /\ scrapePc = "uncalled"
    /\ tasks = <<>>
    /\ globalErrors = <<>>
    /\ bulk = noBulk
    /\ db = "up"
    /\ dbChanges = 0
    /\ events = <<>>
    /\ importJobs = <<>>
    /\ calendarSourcesTable = noSources
    /\ progressCallback = "none"
    /\ reply = noReply
    /\ calls = 0
    /\ other = idleOther
    /\ stream = noStream
    /\ given \in {<<TimeInput(t)>> : t \in TimeTexts} \cup {<<UrlInput(u)>> : u \in Hrefs}
    /\ computed = <<>>
    /\ staticIdle
    /\ progressLog = <<>>
    /\ imp = idleImport
    /\ run = newRun(0)

NextNormalize ==
    \/ NormalizeTime
    \/ NormalizeUrl

SpecNormalize == InitNormalize /\ [][NextNormalize]_vars

-----------------------------------------------------------------------------
(* Claims about the scraper *)

\* the positions of the request whose extraction threw / returned a result
Thrown == {i \in 1..Len(tasks) : tasks[i].st = "null"}
Returned == {i \in 1..Len(tasks) : tasks[i].st = "resolved"}

\* how many entries of a sequence of results or messages are about a source
CountAbout(seq, source) == Cardinality({k \in 1..Len(seq) : seq[k].source = source})

\* C1: fault isolation of scrapeMultipleSources.  Whatever the order in which
\* the extractions settle, when the call returns every source whose
\* extraction threw has one "Failed to scrape" message per request naming it
\* in globalErrors and no entry in results, every other source has one entry
\* in results per request and no message, and totalSources is the length of
\* the request (so results + globalErrors = totalSources).
C1_FaultIsolation ==
    scrapePc = "returned" =>
        /\ bulk.totalSources = Len(sources)
        /\ Len(bulk.results) + Len(bulk.globalErrors) = bulk.totalSources
        /\ \A k \in 1..Len(bulk.globalErrors) : bulk.globalErrors[k].text = "Failed to scrape"
        /\ \A s \in SourceIds :
             LET threw == {i \in Thrown : sources[i] = s}
                 gave == {i \in Returned : sources[i] = s}
             IN  /\ CountAbout(bulk.globalErrors, s) = Cardinality(threw)
                 /\ CountAbout(bulk.results, s) = Cardinality(gave)
        /\ Thrown \cup Returned = 1..Len(sources)

\* a returned call in which one extraction threw and another, which had to
\* wait for its fetches, gave its result
C1_Witness ==
    /\ scrapePc = "returned"
    /\ \E i \in Thrown : \E j \in Returned :
         /\ sources[j] = "wayland-town"
         /\ Len(bulk.results) = 1
         /\ Len(bulk.globalErrors) = 1
         /\ bulk.globalErrors[1].source = sources[i]

\* the requested window W
InRequestedWindow(dt) ==
    /\ getTime(dt) >= getTime(startDate)
    /\ getTime(dt) <= getTime(endDate)

\* C2: window containment.  Every event of every per-source result the
\* scraper returns, sample events included, starts inside the requested
\* window [W.start, W.end] (the dateRange passed, else today .. today + 90).
C2_WindowContainment ==
    scrapePc = "returned" =>
        \A k \in 1..Len(bulk.results) :
            \A e \in 1..Len(bulk.results[k].events) :
                InRequestedWindow(bulk.results[k].events[e].startDate)

\* the sample events an extractor substitutes
SampleTitles ==
    {"Board of Selectmen Meeting", "Planning Board Public Hearing",
     "Town Finance Committee Meeting", "GALLERY SCHEDULE", "Members Art Exhibit"}

NoLiveEvent(result) ==
    \A e \in 1..Len(result.events) : result.events[e].title \in SampleTitles

\* C8: degrade to sample data.  For each known source and each fetch outcome,
\* the extraction does not throw, its events list is not empty, and its
\* warnings list is not empty when no live event was found.
C8_DegradeToSampleData ==
    \A i \in 1..Len(tasks) :
        sources[i] \in calendarSources =>
            /\ tasks[i].st # "rejected"
            /\ tasks[i].st = "resolved" =>
                 /\ tasks[i].result.events # <<>>
                 /\ NoLiveEvent(tasks[i].result) => tasks[i].result.warnings # <<>>

\* the extraction at position i had a page fetch that failed
FetchFailed(i) ==
    \/ sources[i] = "arts-wayland" /\ site.arts \in {"blocked", "down"}
    \/ /\ sources[i] = "wayland-town"
       /\ site.wayland # "unasked"
       /\ \E k \in 1..Len(monthsToScrape) :
            /\ k < tasks[i].mi \/ tasks[i].st = "resolved"
            /\ waylandResponse(site.wayland, monthsToScrape[k]).kind # "ok"

\* C10: a failed page fetch is never recorded in the result's errors and never
\* reaches the coordinator; it is recorded as a warning, and a result without
\* live events carries the sample events.
C10_FetchFailureIsWarning ==
    \A i \in 1..Len(tasks) :
        (sources[i] \in calendarSources /\ FetchFailed(i)) =>
            /\ tasks[i].st \notin {"rejected", "null"}
            /\ tasks[i].result.errors = <<>>
            /\ tasks[i].result.warnings # <<>>
            /\ tasks[i].st = "resolved" => tasks[i].result.events # <<>>

-----------------------------------------------------------------------------
(* Claims about the import pipeline *)

\* C3: idempotence of reconciliation.  A run whose candidates were all held
\* by the store when it began inserts nothing: the number of stored events
\* stays what it was, and once the run is over every candidate has taken the
\* update path of createOrUpdateEvent.
C3_Idempotence ==
    run.held =>
        /\ run.inserted = 0
        /\ Len(events) = run.countAtStart
        /\ imp.pc = "done" => run.updated = bulk.totalEvents

\* a second run over the candidates the first one stored
C3_Witness ==
    /\ imp.pc = "done"
    /\ run.n = 2
    /\ run.held
    /\ run.updated >= 3
    /\ \E k \in 1..Len(bulk.results) : ~NoLiveEvent(bulk.results[k])

\* the rows of the job this run was given the id of
OwnJobs == {k \in 1..Len(importJobs) : importJobs[k].id = imp.jobId}

\* C5: ImportJob lifecycle.  A job row is created running, is given at most
\* one of completed or failed, and is not written again once it has one of
\* them (in particular never failed after completed).
C5_JobLifecycle ==
    \A k \in 1..Len(importJobs) :
        LET w == importJobs[k].written
        IN  /\ w[1] = "running"
            /\ \A n \in 1..Len(w) : n < Len(w) => w[n] \notin {"completed", "failed"}

\* C6: a progress callback that throws does not change the outcome: the call
\* returns {jobId, results}, every event is processed and the job is not
\* failed.
C6_CallbackFaultIgnored ==
    imp.pc = "done" /\ imp.outcome # "badRequest" =>
        /\ imp.outcome = "returned"
        /\ imp.totalImported = bulk.totalEvents
        /\ \A k \in OwnJobs : importJobs[k].status # "failed"

\* C7: a request whose source list holds an identifier outside the ten known
\* sources is rejected on every entry point before a job is created and
\* before any extraction starts.
C7_UnknownSourceRejected ==
    invalidSources # {} =>
        /\ importJobs = <<>>
        /\ scrapePc = "uncalled"
        /\ imp.pc \in {"idle", "done"}
        /\ imp.pc = "done" => imp.outcome = "badRequest"

\* C9: the blocked-site scenario.  Importing ["wayland-town"] for an explicit
\* window while every month fetch answers HTTP 403 gives one result with the
\* three sample events, the "No live events found" warning and no errors, and
\* (the store being available) the job ends completed.
C9_BlockedSiteScenario ==
    (/\ imp.pc = "done"
     /\ imp.outcome = "returned"
     /\ sources = <<"wayland-town">>
     /\ dateRange.given
     /\ site.wayland = "blocked") =>
        /\ Len(bulk.results) = 1
        /\ bulk.results[1].events = sampleEvents
        /\ Len(bulk.results[1].events) = 3
        /\ \E w \in 1..Len(bulk.results[1].warnings) :
             bulk.results[1].warnings[w].text = "No live events found, using sample municipal events"
        /\ bulk.results[1].errors = <<>>
        /\ bulk.globalErrors = <<>>
        /\ (db = "up" /\ dbChanges = 0) =>
             /\ OwnJobs # {}
             /\ \A k \in OwnJobs : importJobs[k].status = "completed"

C9_Witness ==
    /\ imp.pc = "done"
    /\ imp.outcome = "returned"
    /\ sources = <<"wayland-town">>
    /\ dateRange = DateRange(MkDate(2025, 8, 1), MkDate(2025, 8, 31))
    /\ site.wayland = "blocked"
    /\ db = "up" /\ dbChanges = 0
    /\ importJobs[1].status = "completed"
    /\ Len(events) = 4

\* what each read and write returns when it falls back
fallbackValue(op, arg) ==
    CASE op = "getAllEvents" -> fallbackAllEvents(arg, DefaultPageSize)
      [] op = "getCalendarSources" -> FALLBACK_SOURCES
      [] op = "getEventStats" -> fallbackEventStats
      [] op \in {"createEvent", "updateEvent"} -> <<FALLBACK_EVENTS[1]>>
      [] OTHER -> <<>>

\* C4: storage-absent tolerance.  A read or write served while the connection
\* is null, unhealthy or failing returns to its caller, with the fixed
\* fallback of the read or the placeholder of the write; an import run returns
\* {jobId, results} having counted every event, under an id that is the id of
\* its job row or a made-up one.  (The response of the health route is no
\* read or write of EventService.)
C4_StorageAbsentTolerance ==
    /\ reply.op \notin {"none", "health"} =>
         /\ reply.outcome = "returned"
         /\ reply.dbWas # "up" => reply.value = fallbackValue(reply.op, reply.arg)
    /\ imp.pc # "idle" => OwnJobs # {} \/ imp.jobId \in RandomJobIds
    /\ imp.pc = "done" =>
         /\ imp.outcome = "returned"
         /\ bulk.returned
         /\ imp.totalImported = bulk.totalEvents

\* an import that ran without a connection on a store that holds an event,
\* followed by a read of the events
C4_Witness ==
    /\ imp.pc = "done"
    /\ imp.outcome = "returned"
    /\ OwnJobs = {}
    /\ bulk.totalEvents = 3
    /\ events # <<>>
    /\ reply.op = "getAllEvents"
    /\ reply.arg = 1
    /\ reply.dbWas = "null"
    /\ reply.value[1].events = FALLBACK_EVENTS

-----------------------------------------------------------------------------
(* Claims about de-duplication and uniqueness *)

\* the tuple two events of one extraction run must not share
DuplicateKey(e) == <<e.title, e.startDate, e.startTime>>

\* C11: de-duplication within a run.  In the events of every result an
\* extractor returns, no two events share the same (title, start date, start
\* time or no time); a dropped duplicate is recorded as a warning.
C11_NoDuplicatesInRun ==
    \A i \in Returned :
        LET evs == tasks[i].result.events
        IN  /\ \A a, b \in 1..Len(evs) :
                 DuplicateKey(evs[a]) = DuplicateKey(evs[b]) => a = b
            /\ \A k \in 1..Len(tasks[i].result.errors) :
                 tasks[i].result.errors[k].text # "Duplicate event filtered"

\* C12: logical uniqueness.  After any sequence of imports that do not
\* overlap, the store holds at most one row per (title, calendar start date,
\* source), whatever the start times of the candidates were.
C12_LogicalUniqueness ==
    \A a, b \in 1..Len(events) :
        (/\ events[a].title = events[b].title
         /\ events[a].startDate.date = events[b].startDate.date
         /\ events[a].calendarSource = events[b].calendarSource) => a = b

\* how many rows of the events table have the lookup key of eventData
RowsWithKey(eventData) == Cardinality(matching(events, eventData))

\* the two calls have both looked the same event up, neither has written yet
BothSelected ==
    /\ imp.pc = "write"
    /\ other.pc = "write"
    /\ imp.existing = 0
    /\ other.existing = 0
    /\ convertEnhancedScrapedEventToNewEvent(scrapedEvent)
         = convertEnhancedScrapedEventToNewEvent(otherEvent)

\* C13: the lookup-before-insert race.  Two overlapping calls that have both
\* looked up an event that is not stored have both found nothing, and every
\* call that found nothing inserts: the store holds one row per call that
\* inserted the event, two when both did.
C13_LookupInsertRace ==
    /\ BothSelected =>
         RowsWithKey(convertEnhancedScrapedEventToNewEvent(scrapedEvent)) = 0
    /\ \A k \in run.insertedKeys \cup other.insertedKeys :
         RowsWithKey(k) = (IF k \in run.insertedKeys THEN 1 ELSE 0)
                          + (IF k \in other.insertedKeys THEN 1 ELSE 0)

\* both calls are over and the store holds two rows for one event
C13_Witness ==
    /\ imp.pc = "done"
    /\ other.pc = "done"
    /\ \E k \in run.insertedKeys \cap other.insertedKeys :
         /\ RowsWithKey(k) = 2
         /\ \E a, b \in 1..Len(events) :
              /\ a # b
              /\ events[a].title = events[b].title
              /\ events[a].startDate = events[b].startDate
              /\ events[a].calendarSource = events[b].calendarSource

-----------------------------------------------------------------------------
(* Claims about reconciliation failures and progress reports *)

\* the "Failed to import event" messages of the per-event catch (line 441)
ImportFailures ==
    {k \in 1..Len(imp.totalErrors) : imp.totalErrors[k].text = "Failed to import event"}

\* C14: per-event reconciliation failure.  An event whose upsert failed is
\* not counted as imported and has one "Failed to import event" message in
\* the job's error list: totalImported is the number of events inserted or
\* updated, and there are as many such messages as failed upserts.
C14_ReconciliationFailure ==
    /\ imp.totalImported = run.inserted + run.updated
    /\ Cardinality(ImportFailures) = run.failed

\* the positions of the terminal events the stream was given
Terminals == {k \in 1..Len(stream.sent) : stream.sent[k] \in {"complete", "error"}}

\* the order of the events: a status event first and only there, progress
\* events after it, a terminal event only in the last place
EventOrder ==
    \A k \in 1..Len(stream.sent) :
        /\ stream.sent[k] = "status" <=> k = 1
        /\ k \in Terminals => k = Len(stream.sent)

\* the import of the stream is over: pull was called and has settled
StreamOver == stream.pulls > 0 /\ ~stream.pulling

\* C15 as stated: every stream carries a status event, then progress events,
\* then exactly one terminal event, after which it is closed and nothing is
\* enqueued; the import is started at most once.
C15_EveryStreamTerminated ==
    /\ stream.state # "none" => Len(stream.sent) >= 1
    /\ EventOrder
    /\ Terminals # {} <=> stream.closeRequested
    /\ stream.pulls <= 1
    /\ StreamOver => Cardinality(Terminals) = 1

\* C15, amended: the protocol of a stream the client does not cancel.  The
\* events are a status event first, then progress events, and once the pull
\* has settled exactly one terminal event, with which the stream is asked to
\* close so that nothing is enqueued after it; whether cancelled or not, no
\* stream has two terminal events and none starts the import twice.
C15_StreamProtocol ==
    /\ stream.state # "none" => Len(stream.sent) >= 1
    /\ EventOrder
    /\ Terminals # {} <=> stream.closeRequested
    /\ stream.pulls <= 1
    /\ Cardinality(Terminals) <= 1
    /\ (StreamOver /\ stream.state # "cancelled") => Cardinality(Terminals) = 1

\* an import of two sources was streamed to its complete event and the
\* stream closed
C15_Witness ==
    /\ stream.state = "closed"
    /\ stream.pulls = 1
    /\ Len(stream.sent) >= 4
    /\ stream.sent[Len(stream.sent)] = "complete"
    /\ imp.pc = "done"
    /\ Len(bulk.results) = 2

\* the reports made for a source result (lines 424-431)
SourceReports == {k \in 1..Len(progressLog) : progressLog[k].kind = "source"}

\* C16: progress reporting.  Every report of a run has the number of
\* requested sources as its total and a processed count that does not exceed
\* it and never decreases; the report for a source result is made after that
\* result's events were processed, so while the events of the i-th result are
\* processed fewer than i such reports exist; the last report of a run that
\* returned has processed = total.
C16_ProgressReporting ==
    /\ \A k \in 1..Len(progressLog) :
         /\ progressLog[k].total = Len(sources)
         /\ progressLog[k].processed <= progressLog[k].total
         /\ \A l \in k..Len(progressLog) :
              progressLog[k].processed <= progressLog[l].processed
    /\ (progressCallback # "none" /\ imp.pc \in {"select", "write"}) =>
         Cardinality(SourceReports) < imp.i
    /\ (progressCallback # "none" /\ imp.pc = "done" /\ imp.outcome = "returned") =>
         /\ progressLog # <<>>
         /\ progressLog[Len(progressLog)].processed = progressLog[Len(progressLog)].total

\* C16 without the order of report and processing: every report of a run has
\* the number of requested sources as its total.
C16_SameTotal ==
    \A k \in 1..Len(progressLog) : progressLog[k].total = Len(sources)

-----------------------------------------------------------------------------
(* Claims about the aggregate counts *)

\* the results with at least one event, and every (result, event) position
WithEvents == {k \in 1..Len(bulk.results) : Len(bulk.results[k].events) > 0}
EventPositions ==
    UNION {{<<k, e>> : e \in 1..Len(bulk.results[k].events)} : k \in 1..Len(bulk.results)}

\* C17: aggregate counts of BulkScrapingResult.  In what scrapeMultipleSources
\* returns, successfulSources is the number of results with at least one
\* event (sample events included), totalEvents the number of events over all
\* results, and successfulSources <= results.length <= totalSources.
C17_AggregateCounts ==
    bulk.returned =>
        /\ bulk.successfulSources = Cardinality(WithEvents)
        /\ bulk.totalEvents = Cardinality(EventPositions)
        /\ bulk.successfulSources <= Len(bulk.results)
        /\ Len(bulk.results) <= bulk.totalSources

\* a returned call with two results, one of sample events only and one
\* without events
C17_Witness ==
    /\ bulk.returned
    /\ Len(bulk.results) = 2
    /\ bulk.successfulSources = 1
    /\ \E k \in WithEvents :
         /\ NoLiveEvent(bulk.results[k])
         /\ bulk.totalEvents = Len(bulk.results[k].events)

-----------------------------------------------------------------------------
(* Claims about the normalizers *)

\* the hour and minute the token stands for on a 24-hour clock
HourOf(t) ==
    IF t.meridiem = "none" THEN t.h
    ELSE (t.h % 12) + (IF t.meridiem = "pm" THEN 12 ELSE 0)
MinuteOf(t) == IF t.hasMinutes THEN t.m ELSE 0

\* C18: time normalization.  parseTime and convertTo24Hour both map every
\* 12-hour token with am/pm to its 24-hour HH:MM, a 24-hour token with ':' to
\* the left-padded HH:MM and a bare hour to HH:00, so that every token yields
\* a defined HH:MM time.
C18_TimeNormalization ==
    \A k \in 1..Len(computed) :
        given[1].kind = "time" =>
            LET t == given[1].time
                p == computed[k].parseTime
                c == computed[k].convertTo24Hour
            IN  /\ p.defined
                /\ p.padded
                /\ p.hh = HourOf(t)
                /\ p.mm = MinuteOf(t)
                /\ c.form = "HH:mm"
                /\ c.hh = HourOf(t)
                /\ c.mm = MinuteOf(t)

\* the URL the stated rules give an href
StatedUrl(url) ==
    IF ~url.present THEN noUrl
    ELSE LET u == trim(url.text)
         IN  IF u = <<>> \/ u = <<"#">> \/ u = <<"/">> \/ startsWith(u, <<"javascript:">>)
             THEN noUrl
             ELSE IF startsWith(u, <<"/", "/">>) THEN Url(<<"https:">> \o u)
             ELSE IF startsWith(u, <<"/">>) THEN Url(waylandBaseUrl \o u)
             ELSE IF startsWith(u, <<"http:", "/", "/">>) THEN Url(<<"https:">> \o Tail(u))
             ELSE IF startsWith(u, <<"https:", "/", "/">>) \/ startsWith(u, <<"mailto:">>)
             THEN Url(u)
             ELSE Url(waylandBaseUrl \o <<"/">> \o u)

\* C19: URL normalization.  For every href, normalizeEventUrl and the
\* handling of scraped wayland-town links both give the URL of the stated
\* rules: '/path' resolved against the base, '//host/path' with 'https:'
\* prefixed, 'http://' upgraded to 'https://', 'mailto:' and 'https://'
\* unchanged, and no URL for an empty, '#', '/' or 'javascript:' href.
C19_UrlNormalization ==
    \A k \in 1..Len(computed) :
        given[1].kind = "url" =>
            /\ computed[k].normalizeEventUrl = StatedUrl(given[1].url)
            /\ computed[k].waylandTownUrl = StatedUrl(given[1].url)

\* C19 for normalizeEventUrl alone
C19_NormalizeEventUrl ==
    \A k \in 1..Len(computed) :
        given[1].kind = "url" =>
            computed[k].normalizeEventUrl = StatedUrl(given[1].url)

\* C19 for the handling of scraped wayland-town links alone
C19_WaylandTownUrl ==
    \A k \in 1..Len(computed) :
        given[1].kind = "url" =>
            computed[k].waylandTownUrl = StatedUrl(given[1].url)

-----------------------------------------------------------------------------
(* Claims about the source descriptors *)

\* the step is an explicit update of a source: updateCalendarSource called by
\* a client, or by the import after a source's events (lines 448-452)
ExplicitUpdate ==
    \/ calls' = calls + 1 /\ reply'.op = "updateCalendarSource"
    \/ imp.pc = "select" /\ imp'.pc = "source"

\* the step is a call of initializeCalendarSources on an available database
Reseeding ==
    /\ calls' = calls + 1
    /\ reply'.op = "initializeCalendarSources"
    /\ reply'.dbWas = "up"

-----------------------------------------------------------------------------
(* Claims about the health endpoint *)

\* C21: health endpoint in database-free mode.  When GET /api/health is
\* served without a database connection, the response has HTTP status 200
\* and an overall status that is not unhealthy.
C21_HealthDatabaseFree ==
    (reply.op = "health" /\ reply.dbWas = "null") =>
        /\ reply.value.httpStatus = 200
        /\ reply.value.status # "unhealthy"

-----------------------------------------------------------------------------
(* Claims about the month loop of scrapeWaylandTown *)

\* the messages of a list that report a page fetch answered with HTTP 403
BlockedFetches(msgs) ==
    {k \in 1..Len(msgs) : /\ msgs[k].text = "Failed to scrape"
                          /\ msgs[k].cause = FetchErrorText("http403")}

\* C22: blocked short-circuit.  Once a month page of wayland-town was
\* answered with HTTP 403, the extraction fetches no further month in that
\* run: it is not waiting for another fetch and, whenever it ends, holds one
\* 403 message, which is a warning and not an error.
C22_BlockedShortCircuit ==
    \A i \in 1..Len(tasks) :
        (sources[i] = "wayland-town" /\ BlockedFetches(tasks[i].result.warnings) # {}) =>
            /\ tasks[i].st # "fetching"
            /\ Cardinality(BlockedFetches(tasks[i].result.warnings)) = 1
            /\ BlockedFetches(tasks[i].result.errors) = {}

-----------------------------------------------------------------------------
(* The month list of scrapeWaylandTown, for windows starting on any day *)

\* the dates of 2025, by month and day
DatesOf2025 == {MkDate(2025, m, d) : m \in 1..12, d \in 1..31} 

\* the days a window starts on: every day of 2025 that exists
WindowStarts == {dt \in DatesOf2025 : dt.d <= DaysInMonth(dt.y, dt.m)}

\* the lengths of the windows, in days (the last is the default window)
WindowLengths == {0, 20, 45, WindowDays}

\* the month list is built for the window of the call
EnumerateMonths ==
    /\ computed = <<>>
    /\ given = <<>>
    /\ computed' = <<[monthsToScrape |-> monthsToScrape]>>
    /\ UNCHANGED <<callVars, site, scrapePc, tasks, globalErrors, bulk, db, dbChanges,
                   events, importJobs, calendarSourcesTable, callerVars, other, stream,
                   given, staticVars, progressLog, imp, run>>

InitMonths ==
    /\ today = MkDate(2025, 7, 20)
    /\ entry = "service"
    /\ sources = <<"wayland-town">>
    /\ dateRange \in {DateRange(from, addDays(from, n)) : from \in WindowStarts, n \in WindowLengths}
    /\ site = unaskedSites
    /\ scrapePc = "uncalled"
    /\ tasks = <<>>
    /\ globalErrors = <<>>
    /\ bulk = noBulk
    /\ db = "up"
    /\ dbChanges = 0
    /\ events = <<>>
    /\ importJobs = <<>>
    /\ calendarSourcesTable = noSources
    /\ progressCallback = "none"
    /\ reply = noReply
    /\ calls = 0
    /\ asideIdle
    /\ progressLog = <<>>
    /\ imp = idleImport
    /\ run = newRun(0)

NextMonths == EnumerateMonths

SpecMonths == InitMonths /\ [][NextMonths]_vars

\* the (year, month) pairs that contain a day of the window
MonthsOfWindow ==
    {[month |-> dt.m, year |-> dt.y] :
        dt \in {newDate(n) : n \in getTime(startDate)..getTime(endDate)}}

\* position of a (year, month) pair in time
MonthNumber(my) == my.year * 12 + my.month

\* C23: month enumeration.  For a window with start <= end, the months the
\* loop lists are exactly the (year, month) pairs that contain a day of the
\* window, each once and in chronological order.
C23_MonthEnumeration ==
    computed # <<>> =>
        LET months == computed[1].monthsToScrape
        IN  /\ {months[k] : k \in 1..Len(months)} = MonthsOfWindow
            /\ \A j, k \in 1..Len(months) :
                   j < k => MonthNumber(months[j]) < MonthNumber(months[k])

-----------------------------------------------------------------------------
(* Parsing one calendar page: parseCalendarWithMultipleStrategies and the
   day cells of scrapeWaylandTown *)

\* the day number of a cell whose text holds no digits
NoDay == 0 - 1

\* A day cell without a data-date attribute: the number its day text parses
\* to, and the text of the event link in it ("" when it has none).
DayCell(day, title) == [day |-> day, title |-> title]

\* the event parseEventFromText builds: startDate is format(cellDate, "yyyy-MM-dd")
parseEventFromText(eventText, cellDate) ==
    IF eventText = "" THEN <<>>
    ELSE <<[title |-> eventText, startDate |-> cellDate, startTime |-> undefinedTime]>>

\* new Date(parseInt(targetYear), parseInt(targetMonth) - 1, dayNumber)
cellDateOf(targetYear, targetMonth, dayNumber) ==
    newDate(getTime(MkDate(targetYear, targetMonth, dayNumber)))

extractEventsFromCell(cell, cellDate) == parseEventFromText(cell.title, cellDate)

RECURSIVE parseStandardCalendarTable(_, _, _)
parseStandardCalendarTable(cells, targetYear, targetMonth) ==
    IF cells = <<>> THEN <<>>
    ELSE LET dayNumber == Head(cells).day
             found == IF dayNumber = NoDay \/ dayNumber < 1 \/ dayNumber > 31 THEN <<>>
                      ELSE extractEventsFromCell(Head(cells),
                                                 cellDateOf(targetYear, targetMonth, dayNumber))
         IN  found \o parseStandardCalendarTable(Tail(cells), targetYear, targetMonth)

RECURSIVE parseCalendarGrid(_, _, _)
parseCalendarGrid(cells, targetYear, targetMonth) ==
    IF cells = <<>> THEN <<>>
    ELSE LET dayNumber == Head(cells).day
             found == IF dayNumber = NoDay THEN <<>>
                      ELSE extractEventsFromCell(Head(cells),
                                                 cellDateOf(targetYear, targetMonth, dayNumber))
         IN  found \o parseCalendarGrid(Tail(cells), targetYear, targetMonth)

\* parseEventElement for an element without date text: the first of the month
RECURSIVE parseEventList(_, _, _)
parseEventList(elements, targetYear, targetMonth) ==
    IF elements = <<>> THEN <<>>
    ELSE LET title == Head(elements)
             found == IF title = "" THEN <<>>
                      ELSE <<[title |-> title,
                              startDate |-> cellDateOf(targetYear, targetMonth, 1),
                              startTime |-> undefinedTime]>>
         IN  found \o parseEventList(Tail(elements), targetYear, targetMonth)

\* the key is title|startDate|startTime
RECURSIVE removeDuplicateEvents(_, _)
removeDuplicateEvents(evs, unique) ==
    IF evs = <<>> THEN unique
    ELSE removeDuplicateEvents(Tail(evs),
             IF \E k \in 1..Len(unique) : unique[k] = Head(evs)
             THEN unique ELSE Append(unique, Head(evs)))

\* the three strategies as the function runs them
parseCalendarWithMultipleStrategies(page, targetYear, targetMonth) ==
    LET strategy1Events == parseStandardCalendarTable(page.table, targetYear, targetMonth)
        strategy2Events == parseCalendarGrid(page.grid, targetYear, targetMonth)
        strategy3Events == parseEventList(page.list, targetYear, targetMonth)
    IN  [strategy1Events |-> strategy1Events,
         strategy2Events |-> strategy2Events,
         strategy3Events |-> strategy3Events,
         uniqueEvents |-> removeDuplicateEvents(strategy1Events \o strategy2Events \o strategy3Events, <<>>)]

\* the links scrapeWaylandTown finds in the same table cells
RECURSIVE linksOf(_)
linksOf(cells) ==
    IF cells = <<>> THEN <<>>
    ELSE <<Link(IF Head(cells).day = NoDay THEN 0 ELSE Head(cells).day,
                Head(cells).title, noTimeText)>> \o linksOf(Tail(cells))

\* the day numbers and link texts of the cells of a page
CellDays == {NoDay, 0, 15, 31, 45}
CellTitles == {"", "Select Board"}
DayCells == {DayCell(day, title) : day \in CellDays, title \in CellTitles}

\* pages with at most one cell per selector family
CalendarPages ==
    [table : {<<>>} \cup {<<c>> : c \in DayCells},
     grid : {<<>>} \cup {<<c>> : c \in DayCells},
     list : {<<>>} \cup {<<t>> : t \in CellTitles}]

\* the months a page is fetched for: one of 30 days, one of 31
PageMonths == {[month |-> 9, year |-> 2025], [month |-> 10, year |-> 2025]}

PageInput(page, my) == [kind |-> "page", page |-> page, my |-> my]

\* both parsers are applied to a page
ParsePage ==
    /\ computed = <<>>
    /\ Len(given) = 1
    /\ given[1].kind = "page"
    /\ computed' = <<[legacy |-> parseCalendarWithMultipleStrategies(given[1].page,
                                     given[1].my.year, given[1].my.month),
                      inline |-> parseDayCells(linksOf(given[1].page.table), given[1].my, <<>>)]>>
    /\ UNCHANGED <<callVars, site, scrapePc, tasks, globalErrors, bulk, db, dbChanges,
                   events, importJobs, calendarSourcesTable, callerVars, other, stream,
                   given, staticVars, progressLog, imp, run>>

InitParse ==
    /\ today = MkDate(2025, 9, 15)
    /\ entry = "service"
    /\ sources = <<"wayland-town">>
    /\ dateRange = noDateRange
    /\ site = unaskedSites
    /\ scrapePc = "uncalled"
    /\ tasks = <<>>
    /\ globalErrors = <<>>
    /\ bulk = noBulk
    /\ db = "up"
    /\ dbChanges = 0
    /\ events = <<>>
    /\ importJobs = <<>>
    /\ calendarSourcesTable = noSources
    /\ progressCallback = "none"
    /\ reply = noReply
    /\ calls = 0
    /\ other = idleOther
    /\ stream = noStream
    /\ given \in {<<PageInput(page, my)>> : page \in CalendarPages, my \in PageMonths}
    /\ computed = <<>>
    /\ staticIdle
    /\ progressLog = <<>>
    /\ imp = idleImport
    /\ run = newRun(0)

NextParse == ParsePage

SpecParse == InitParse /\ [][NextParse]_vars

-----------------------------------------------------------------------------
(* Claims about parsing a page *)

\* the events of the first strategy that found any
firstYield(parsed) ==
    IF parsed.strategy1Events # <<>> THEN parsed.strategy1Events
    ELSE IF parsed.strategy2Events # <<>> THEN parsed.strategy2Events
    ELSE parsed.strategy3Events

\* C24: strategy exclusivity.  The events of a page are those of the first
\* strategy (table cells, grid cells, event list) that yields any; the
\* yields of different strategies are never merged.
C24_StrategyExclusivity ==
    computed # <<>> =>
        computed[1].legacy.uniqueEvents = removeDuplicateEvents(firstYield(computed[1].legacy), <<>>)

\* whether the date is a real calendar date of the month
InMonth(dt, my) ==
    /\ dt.y = my.year
    /\ dt.m = my.month
    /\ dt.d \in 1..DaysInMonth(my.year, my.month)

\* the cells whose day number is a day of the month and that hold a link
CellsOfMonth(cells, my) ==
    {k \in 1..Len(cells) : /\ cells[k].title # ""
                           /\ cells[k].day \in 1..DaysInMonth(my.year, my.month)}

\* C25: day-number handling.  In every strategy (table, grid, wayland-town
\* inline) each event of a day cell starts on a real calendar date of the
\* page's (year, month), and a cell whose day number is outside 1-31 or
\* beyond the month's length produces no event.
C25_DayNumberHandling ==
    computed # <<>> =>
        LET my == given[1].my
            page == given[1].page
            parsed == computed[1].legacy
            Dated(evs) == \A k \in 1..Len(evs) : InMonth(evs[k].startDate, my)
        IN  /\ Dated(parsed.strategy1Events)
            /\ Dated(parsed.strategy2Events)
            /\ Dated(computed[1].inline)
            /\ Len(parsed.strategy1Events) = Cardinality(CellsOfMonth(page.table, my))
            /\ Len(parsed.strategy2Events) = Cardinality(CellsOfMonth(page.grid, my))
            /\ Len(computed[1].inline) = Cardinality(CellsOfMonth(page.table, my))

\* C25 for the table strategy alone
C25_TableStrategy ==
    computed # <<>> =>
        /\ \A k \in 1..Len(computed[1].legacy.strategy1Events) :
               InMonth(computed[1].legacy.strategy1Events[k].startDate, given[1].my)
        /\ Len(computed[1].legacy.strategy1Events)
               = Cardinality(CellsOfMonth(given[1].page.table, given[1].my))

\* C25 for the grid strategy alone
C25_GridStrategy ==
    computed # <<>> =>
        /\ \A k \in 1..Len(computed[1].legacy.strategy2Events) :
               InMonth(computed[1].legacy.strategy2Events[k].startDate, given[1].my)
        /\ Len(computed[1].legacy.strategy2Events)
               = Cardinality(CellsOfMonth(given[1].page.grid, given[1].my))

\* C25 for the day cells of scrapeWaylandTown alone
C25_InlineCells ==
    computed # <<>> =>
        /\ \A k \in 1..Len(computed[1].inline) :
               InMonth(computed[1].inline[k].startDate, given[1].my)
        /\ Len(computed[1].inline)
               = Cardinality(CellsOfMonth(given[1].page.table, given[1].my))

-----------------------------------------------------------------------------
(* Claims about the imported count *)

\* the rows of import_jobs the finished run completed
CompletedRows ==
    {k \in 1..Len(importJobs) : /\ importJobs[k].id = imp.jobId
                                /\ importJobs[k].status = "completed"}

\* C26: imported-count accuracy.  When a run of importFromMultipleSources
\* has returned, the imported count (totalImported of the final status
\* message, successfulImports of the job row) is the number of events the
\* run inserted or updated (0 when nothing could be stored) and it is at
\* most totalEvents.
C26_ImportedCount ==
    (imp.pc = "done" /\ imp.outcome = "returned") =>
        /\ imp.totalImported = run.inserted + run.updated
        /\ imp.totalImported <= bulk.totalEvents
        /\ \A k \in CompletedRows :
               /\ importJobs[k].successfulImports = run.inserted + run.updated
               /\ importJobs[k].successfulImports <= importJobs[k].totalEvents

-----------------------------------------------------------------------------
(* Claims about the order of the results *)

\* every extraction has settled and Promise.all has resolved
AllSettled ==
    /\ scrapePc = "returned"
    /\ \A i \in 1..Len(tasks) : tasks[i].st \in {"resolved", "null"}

\* the results are those of the resolved extractions, in the order in which
\* their sources were requested
InRequestOrder ==
    \E f \in [1..Len(bulk.results) -> 1..Len(tasks)] :
        /\ \A j, k \in 1..Len(bulk.results) : j < k => f[j] < f[k]
        /\ \A k \in 1..Len(bulk.results) :
               /\ tasks[f[k]].st = "resolved"
               /\ bulk.results[k] = tasks[f[k]].result
               /\ bulk.results[k].source = sources[f[k]]
        /\ \A i \in 1..Len(tasks) :
               tasks[i].st = "resolved" => \E k \in 1..Len(bulk.results) : f[k] = i

\* C27: result ordering.  Whatever the order in which the concurrent
\* extractions complete, the results of the bulk result are in the order of
\* their sources in the request, and the import writes no event before every
\* requested extraction has settled.
C27_ResultOrdering ==
    [][/\ bulk'.returned => InRequestOrder'
       /\ events' # events => AllSettled]_vars

\* the second extraction has settled with events while the first is still
\* fetching, and nothing has been stored
C27_Witness ==
    /\ Len(tasks) = 2
    /\ imp.pc = "scrape"
    /\ tasks[1].st = "fetching"
    /\ tasks[2].st = "resolved"
    /\ Len(tasks[2].result.events) > 0
    /\ events = <<>>

-----------------------------------------------------------------------------
(* lib/db/schema.ts: the connection and its initialization *)

\* calls of the exported functions in a behaviour
MaxConnectionCalls == 6

\* everything but the module state of schema.ts
besideConnection ==
    <<callVars, site, scrapePc, tasks, globalErrors, bulk, db, dbChanges, events,
      importJobs, calendarSourcesTable, callerVars, other, stream, given, computed,
      progressLog, imp, run, seeders, scheduler>>

\* what createConnection and initializeSchema can do
ConnectOutcomes == {"connected", "throws"}
SchemaOutcomes == {"completed", "throws"}
CloseOutcomes == {"closed", "throws"}

\* the catch block of getDatabase: null in production, the error otherwise
getDatabaseCatch(c) ==
    IF c.production
    THEN [c |-> [c EXCEPT !.sqlite = "null", !.dbInstance = "null"], result |-> "null"]
    ELSE [c |-> c, result |-> "throw"]

\* getDatabase(): the module state after the call and what the call gave
getDatabase(c, connect, init) ==
    IF c.sqlite # "null" /\ c.dbInstance # "null"
    THEN [c |-> c, result |-> "dbInstance"]
    ELSE IF connect = "throws" THEN getDatabaseCatch(c)
    ELSE LET opened == [c EXCEPT !.sqlite = "open", !.dbInstance = "drizzle"]
         IN  IF opened.isInitialized
             THEN [c |-> opened, result |-> "dbInstance"]
             ELSE IF init = "throws" THEN getDatabaseCatch(opened)
             ELSE [c |-> [opened EXCEPT !.isInitialized = TRUE], result |-> "dbInstance"]

\* sqlite = null; dbInstance = null; isInitialized = false
resetConnection(c) ==
    [c EXCEPT !.sqlite = "null", !.dbInstance = "null", !.isInitialized = FALSE]

\* the call is counted and its result kept
connectionReturned(c, op, value) ==
    [c EXCEPT !.n = @ + 1, !.returned = [op |-> op, value |-> value]]

\* db()
CallDb ==
    /\ connection.n < MaxConnectionCalls
    /\ \E connect \in ConnectOutcomes, init \in SchemaOutcomes :
         LET got == getDatabase(connection, connect, init)
         IN  connection' = connectionReturned(got.c, "db", got.result)
    /\ UNCHANGED besideConnection

\* ensureInitialized(): db !== null, or false when getDatabase threw
CallEnsureInitialized ==
    /\ connection.n < MaxConnectionCalls
    /\ \E connect \in ConnectOutcomes, init \in SchemaOutcomes :
         LET got == getDatabase(connection, connect, init)
         IN  connection' = connectionReturned(got.c, "ensureInitialized",
                                IF got.result = "dbInstance" THEN "true" ELSE "false")
    /\ UNCHANGED besideConnection

\* reconnectDatabase(): close (errors caught), reset, getDatabase()
CallReconnectDatabase ==
    /\ connection.n < MaxConnectionCalls
    /\ \E close \in CloseOutcomes, connect \in ConnectOutcomes, init \in SchemaOutcomes :
         LET got == getDatabase(resetConnection(connection), connect, init)
         IN  connection' = connectionReturned(got.c, "reconnectDatabase",
                                IF got.result = "throw" THEN "throw" ELSE "void")
    /\ UNCHANGED besideConnection

\* closeDatabase(): close (errors caught), reset in the finally block
CallCloseDatabase ==
    /\ connection.n < MaxConnectionCalls
    /\ \E close \in CloseOutcomes :
         connection' = connectionReturned(resetConnection(connection), "closeDatabase", "void")
    /\ UNCHANGED besideConnection

InitConnection ==
    /\ today = MkDate(2025, 7, 20)
    /\ entry = "service"
    /\ sources = <<>>
    /\ dateRange = noDateRange
    /\ site = unaskedSites
    /\ scrapePc = "uncalled"
    /\ tasks = <<>>
    /\ globalErrors = <<>>
    /\ bulk = noBulk
    /\ db = "up"
    /\ dbChanges = 0
    /\ events = <<>>
    /\ importJobs = <<>>
    /\ calendarSourcesTable = noSources
    /\ progressCallback = "none"
    /\ reply = noReply
    /\ calls = 0
    /\ other = idleOther
    /\ stream = noStream
    /\ given = <<>>
    /\ computed = <<>>
    /\ progressLog = <<>>
    /\ imp = idleImport
    /\ run = newRun(0)
    /\ \E production \in BOOLEAN : connection = [noConnection EXCEPT !.production = production]
    /\ seeders = noSeeders
    /\ scheduler = noScheduler

NextConnection ==
    \/ CallDb
    \/ CallEnsureInitialized
    \/ CallReconnectDatabase
    \/ CallCloseDatabase

SpecConnection == InitConnection /\ [][NextConnection]_vars

\* C28: connection-state invariant.  After any sequence of db(),
\* ensureInitialized(), reconnectDatabase() and closeDatabase() calls,
\* failing ones included, sqlite and dbInstance are both null or both set,
\* and a connection that db() returned is one whose schema initialization
\* completed (isInitialized is true).
C28_ConnectionState ==
    /\ connection.sqlite = "null" <=> connection.dbInstance = "null"
    /\ (connection.returned.op = "db" /\ connection.returned.value = "dbInstance")
           => connection.isInitialized

\* C28, first half: sqlite and dbInstance are both null or both set
C28_Paired == connection.sqlite = "null" <=> connection.dbInstance = "null"

-----------------------------------------------------------------------------
(* Requests that seed side by side: getAllEvents and getEventStats both
   await initializeCalendarSources, which awaits seedSampleEvents *)

\* everything but the two tables and the seeding requests
besideSeeding ==
    <<callVars, site, scrapePc, tasks, globalErrors, bulk, db, dbChanges,
      importJobs, callerVars, other, stream, given, computed, progressLog, imp, run,
      connection, scheduler>>

\* the sample event of seedSampleEvents
sampleEvent == seededEvents[1]

\* getAllEvents or getEventStats is called: initializeCalendarSources starts
SeedCall(r) ==
    /\ seeders[r].pc = "idle"
    /\ seeders' = [seeders EXCEPT ![r].pc = withDatabaseFallback("sources", "done")]
    /\ UNCHANGED <<besideSeeding, events, calendarSourcesTable>>

\* initializeCalendarSources lines 249-258: the awaited inserts of the
\* sources, none of which replaces a row
SeedInsertSources(r) ==
    /\ seeders[r].pc = "sources"
    /\ calendarSourcesTable' = insertSources(calendarSourcesTable)
    /\ seeders' = [seeders EXCEPT ![r].pc = "select"]
    /\ UNCHANGED <<besideSeeding, events>>

\* seedSampleEvents lines 274-279: await select().from(events).limit(1)
SeedSelect(r) ==
    /\ seeders[r].pc = "select"
    /\ LET existingEvents == IF events = <<>> THEN 0 ELSE 1
       IN  seeders' = [seeders EXCEPT
                          ![r].existingEvents = existingEvents,
                          ![r].pc = IF existingEvents > 0 THEN "done" ELSE "insert"]
    /\ UNCHANGED <<besideSeeding, events, calendarSourcesTable>>

\* seedSampleEvents lines 301-305: await insert(events).values(event)
SeedInsert(r) ==
    /\ seeders[r].pc = "insert"
    /\ events' = insertEventRow(events, sampleEvent)
    /\ seeders' = [seeders EXCEPT ![r].pc = "done"]
    /\ UNCHANGED <<besideSeeding, calendarSourcesTable>>

InitSeed ==
    /\ today = MkDate(2025, 7, 20)
    /\ entry = "service"
    /\ sources = <<>>
    /\ dateRange = noDateRange
    /\ site = unaskedSites
    /\ scrapePc = "uncalled"
    /\ tasks = <<>>
    /\ globalErrors = <<>>
    /\ bulk = noBulk
    /\ db = "up"
    /\ dbChanges = 0
    /\ events = <<>>
    /\ importJobs = <<>>
    /\ calendarSourcesTable = noSources
    /\ progressCallback = "none"
    /\ reply = noReply
    /\ calls = 0
    /\ asideIdle
    /\ progressLog = <<>>
    /\ imp = idleImport
    /\ run = newRun(0)

NextSeed ==
    \/ \E r \in 1..MaxRequests : SeedCall(r)
    \/ \E r \in 1..MaxRequests : SeedInsertSources(r)
    \/ \E r \in 1..MaxRequests : SeedSelect(r)
    \/ \E r \in 1..MaxRequests : SeedInsert(r)

SpecSeed == InitSeed /\ [][NextSeed]_vars

\* the rows that hold the sample event
SampleRows == {k \in 1..Len(events) : events[k].title = sampleEvent.title}

\* C29: seed-once under concurrency.  From an empty events table, whatever
\* the interleaving of the requests that seed, the sample event is never
\* stored more than once, and it is stored once when a request has finished.
C29_SeedOnce ==
    /\ Cardinality(SampleRows) <= 1
    /\ (\E r \in 1..MaxRequests : seeders[r].pc = "done") => Cardinality(SampleRows) = 1

-----------------------------------------------------------------------------
(* SchedulerService and POST /api/scheduler *)

\* calls of the service in a behaviour
MaxSchedulerCalls == 4

\* everything but the scheduler
besideScheduler ==
    <<callVars, site, scrapePc, tasks, globalErrors, bulk, db, dbChanges, events,
      importJobs, calendarSourcesTable, callerVars, other, stream, given, computed,
      progressLog, imp, run, connection, seeders>>

\* the ids of setupDefaultJobs and one custom id
DefaultJobIds == {"monthly-import", "weekly-import"}
JobIds == DefaultJobIds \cup {"nightly-import"}

\* {id, description, schedule, active: false}: a new object, without lastRun
ScheduledJob(obj) == [active |-> FALSE, lastRun |-> 0, obj |-> obj]

\* a jobs.set that keeps the flag of the job it replaces
scheduleCustomJobKeepingActive(jobs, id, obj) ==
    [j \in DOMAIN jobs \cup {id} |->
        IF j # id THEN jobs[j]
        ELSE IF id \in DOMAIN jobs
             THEN [ScheduledJob(obj) EXCEPT !.active = jobs[id].active]
             ELSE ScheduledJob(obj)]

\* this.jobs.set(id, {id, description, schedule, active: false})
scheduleCustomJob(jobs, id, obj) ==
    [j \in DOMAIN jobs \cup {id} |-> IF j = id THEN ScheduledJob(obj) ELSE jobs[j]]

\* job.active = true, when jobs.get(jobId) gave a job
startJob(jobs, jobId) ==
    IF jobId \in DOMAIN jobs THEN [jobs EXCEPT ![jobId].active = TRUE] ELSE jobs

\* job.active = false, when jobs.get(jobId) gave a job
stopJob(jobs, jobId) ==
    IF jobId \in DOMAIN jobs THEN [jobs EXCEPT ![jobId].active = FALSE] ELSE jobs

\* this.jobs.delete(jobId)
deleteJob(jobs, jobId) == [j \in DOMAIN jobs \ {jobId} |-> jobs[j]]

\* the call is counted and its result kept
schedulerReturned(sch, op, jobId, value, threw) ==
    [sch EXCEPT !.n = @ + 1,
                !.returned = [op |-> op, jobId |-> jobId, value |-> value, threw |-> threw]]

\* the most recent of create, start and stop that was applied to the id
applied(last, id, op) == [j \in DOMAIN last \cup {id} |-> IF j = id THEN op ELSE last[j]]

\* SchedulerService.initialize(): setupDefaultJobs
initialize(sch) ==
    [sch EXCEPT !.jobs = [j \in DefaultJobIds |-> ScheduledJob(0)],
                !.last = [j \in DefaultJobIds |-> "create"]]

\* action "create": scheduleCustomJob
SchedulerCreate(id) ==
    /\ scheduler.n < MaxSchedulerCalls
    /\ scheduler' = schedulerReturned(
            [scheduler EXCEPT !.jobs = scheduleCustomJob(@, id, scheduler.created + 1),
                              !.created = @ + 1,
                              !.last = applied(@, id, "create")],
            "create", id, TRUE, FALSE)
    /\ UNCHANGED besideScheduler

\* action "start": startJob
SchedulerStart(id) ==
    /\ scheduler.n < MaxSchedulerCalls
    /\ scheduler' = schedulerReturned(
            [scheduler EXCEPT !.jobs = startJob(@, id),
                              !.last = IF id \in DOMAIN scheduler.jobs
                                       THEN applied(@, id, "start") ELSE @],
            "start", id, id \in DOMAIN scheduler.jobs, FALSE)
    /\ UNCHANGED besideScheduler

\* action "stop": stopJob
SchedulerStop(id) ==
    /\ scheduler.n < MaxSchedulerCalls
    /\ scheduler' = schedulerReturned(
            [scheduler EXCEPT !.jobs = stopJob(@, id),
                              !.last = IF id \in DOMAIN scheduler.jobs
                                       THEN applied(@, id, "stop") ELSE @],
            "stop", id, id \in DOMAIN scheduler.jobs, FALSE)
    /\ UNCHANGED besideScheduler

\* action "delete": deleteJob
SchedulerDelete(id) ==
    /\ scheduler.n < MaxSchedulerCalls
    /\ scheduler' = schedulerReturned(
            [scheduler EXCEPT !.jobs = deleteJob(@, id),
                              !.last = [j \in DOMAIN @ \ {id} |-> @[j]]],
            "delete", id, id \in DOMAIN scheduler.jobs, FALSE)
    /\ UNCHANGED besideScheduler

\* action "run": runJobNow up to its await; it returns false at once when
\* the id has no job, and holds the job object otherwise
RunJobNowCall(id) ==
    /\ scheduler.n < MaxSchedulerCalls
    /\ scheduler' =
            IF id \in DOMAIN scheduler.jobs
            THEN [scheduler EXCEPT !.n = @ + 1,
                                   !.running = @ \cup {[jobId |-> id, obj |-> scheduler.jobs[id].obj,
                                                         call |-> scheduler.n + 1]}]
            ELSE schedulerReturned(scheduler, "run", id, FALSE, FALSE)
    /\ UNCHANGED besideScheduler

\* runJobNow after importCalendarMonth settled: lastRun is set on the job
\* object the call holds, unless the import threw
RunJobNowSettle ==
    /\ \E rn \in scheduler.running, threw \in BOOLEAN :
         LET held == /\ rn.jobId \in DOMAIN scheduler.jobs
                     /\ scheduler.jobs[rn.jobId].obj = rn.obj
         IN  scheduler' = schedulerReturned(
                 [scheduler EXCEPT
                     !.running = @ \ {rn},
                     !.jobs = IF ~threw /\ held
                              THEN [@ EXCEPT ![rn.jobId].lastRun = scheduler.n + 1]
                              ELSE @],
                 "run", rn.jobId, ~threw, threw)
    /\ UNCHANGED besideScheduler

InitScheduler ==
    /\ today = MkDate(2025, 7, 20)
    /\ entry = "service"
    /\ sources = <<>>
    /\ dateRange = noDateRange
    /\ site = unaskedSites
    /\ scrapePc = "uncalled"
    /\ tasks = <<>>
    /\ globalErrors = <<>>
    /\ bulk = noBulk
    /\ db = "up"
    /\ dbChanges = 0
    /\ events = <<>>
    /\ importJobs = <<>>
    /\ calendarSourcesTable = noSources
    /\ progressCallback = "none"
    /\ reply = noReply
    /\ calls = 0
    /\ other = idleOther
    /\ stream = noStream
    /\ given = <<>>
    /\ computed = <<>>
    /\ progressLog = <<>>
    /\ imp = idleImport
    /\ run = newRun(0)
    /\ connection = noConnection
    /\ seeders = noSeeders
    /\ scheduler = initialize(noScheduler)

NextScheduler ==
    \/ \E id \in JobIds : SchedulerCreate(id)
    \/ \E id \in JobIds : SchedulerStart(id)
    \/ \E id \in JobIds : SchedulerStop(id)
    \/ \E id \in JobIds : SchedulerDelete(id)
    \/ \E id \in JobIds : RunJobNowCall(id)
    \/ RunJobNowSettle

SpecScheduler == InitScheduler /\ [][NextScheduler]_vars

\* a registered job is active exactly when the most recent of create, start
\* and stop applied to its id was start
ActiveIffStarted ==
    \A id \in DOMAIN scheduler.jobs :
        scheduler.jobs[id].active <=> scheduler.last[id] = "start"

\* the jobs differ at most in lastRun of the given job
OnlyLastRun(before, after, jobId) ==
    /\ DOMAIN after = DOMAIN before
    /\ \A j \in DOMAIN before :
           /\ j # jobId => after[j] = before[j]
           /\ after[j] = [before[j] EXCEPT !.lastRun = after[j].lastRun]

\* C30: scheduler registry.  (a) startJob, stopJob, runJobNow and deleteJob
\* on an id without a job return false and leave every job as it was; (b) a
\* registered job is active exactly when the most recent of create, start
\* and stop applied to its id was start; (c) runJobNow changes nothing but
\* lastRun of its job, and that only when the import did not throw.
C30_SchedulerRegistry ==
    [][LET before == scheduler.jobs
           after == scheduler'.jobs
           r == scheduler'.returned
       IN  /\ ActiveIffStarted'
           /\ (/\ scheduler'.running = scheduler.running
               /\ r.op \in {"start", "stop", "run", "delete"}
               /\ r.jobId \notin DOMAIN before)
                  => (r.value = FALSE /\ after = before)
           /\ scheduler'.running # scheduler.running =>
                  /\ OnlyLastRun(before, after, r.jobId)
                  /\ (Cardinality(scheduler'.running) > Cardinality(scheduler.running)
                         => after = before)
                  /\ r.threw => after = before]_vars

\* a started job was run, the import did not throw and lastRun is set
C30_Witness ==
    /\ scheduler.returned.op = "run"
    /\ scheduler.returned.value
    /\ scheduler.returned.jobId \in DOMAIN scheduler.jobs
    /\ scheduler.jobs[scheduler.returned.jobId].active
    /\ scheduler.jobs[scheduler.returned.jobId].lastRun > 0

=============================================================================
